---- MODULE Spec2Model ----
(***************************************************************************)
(* store-it: the file actions (uploadFile, getFiles, renameFile,           *)
(* updateFileUsers, deleteFile, getTotalSpaceUsed) of                      *)
(* src/lib/actions/file.actions.ts over                                    *)
(* the hosted document database and blob storage, and the helpers of       *)
(* lib/utils they use.                                                     *)
(*                                                                         *)
(* A JavaScript string is a sequence of one-character strings:             *)
(* "a.md" is <<"a", ".", "m", "d">>.  Every await of a backend call is one *)
(* atomic step of the request that makes it; requests interleave between   *)
(* their backend calls.                                                    *)
(***************************************************************************)
EXTENDS Integers, Sequences, FiniteSets, TLC

(***************************************************************************)
(* Bounds of the exploration.                                              *)
(***************************************************************************)
\* concurrent requests (server-action invocations in flight)
MaxProcs == 2
\* server-action calls started in one behaviour
MaxCalls == 3
\* uploads started in one behaviour (ID.unique() values handed out)
MaxFiles == 2
\* backend calls that fail for a reason outside the program
MaxFaults == 2
\* longest collaborator list a caller passes to updateFileUsers
MaxShare == 1
\* records of a collection handed to getTotalSpaceUsed as its start
MaxRecords == 3

(***************************************************************************)
(* Strings.                                                                *)
(***************************************************************************)
UpperChars ==
    <<"A", "B", "C", "D", "E", "F", "G", "H", "I", "J", "K", "L", "M",
      "N", "O", "P", "Q", "R", "S", "T", "U", "V", "W", "X", "Y", "Z">>

LowerChars ==
    <<"a", "b", "c", "d", "e", "f", "g", "h", "i", "j", "k", "l", "m",
      "n", "o", "p", "q", "r", "s", "t", "u", "v", "w", "x", "y", "z">>

\* one character of String.prototype.toLowerCase
ToLowerChar(c) ==
    IF \E i \in 1..Len(UpperChars) : UpperChars[i] = c
    THEN LowerChars[CHOOSE i \in 1..Len(UpperChars) : UpperChars[i] = c]
    ELSE c

\* String.prototype.toLowerCase
ToLowerCase(s) == [i \in 1..Len(s) |-> ToLowerChar(s[i])]

\* String.prototype.endsWith
EndsWith(s, suffix) ==
    /\ Len(suffix) <= Len(s)
    /\ SubSeq(s, Len(s) - Len(suffix) + 1, Len(s)) = suffix

\* String.prototype.includes: suffix of some prefix
Includes(s, part) ==
    \E i \in 0..(Len(s) - Len(part)) : SubSeq(s, i + 1, i + Len(part)) = part

\* Array.prototype.includes
InSeq(x, seq) == \E i \in 1..Len(seq) : seq[i] = x

\* s.split(sep).pop() for a one-character sep: what follows the last sep,
\* the whole of s when it holds no sep
SplitPop(s, sep) ==
    LET at == {i \in 1..Len(s) : s[i] = sep}
    IN  IF at = {} THEN s
        ELSE LET last == CHOOSE i \in at : \A j \in at : j <= i
             IN  SubSeq(s, last + 1, Len(s))

\* s.split(sep): the pieces between the separators, in order
RECURSIVE Split(_, _)
Split(s, sep) ==
    LET at == {i \in 1..Len(s) : s[i] = sep}
    IN  IF at = {} THEN <<s>>
        ELSE LET first == CHOOSE i \in at : \A j \in at : i <= j
             IN  <<SubSeq(s, 1, first - 1)>>
                 \o Split(SubSeq(s, first + 1, Len(s)), sep)

(***************************************************************************)
(* getFileType (lib/utils).                                                *)
(***************************************************************************)
documentExtensions ==
    { <<"p","d","f">>, <<"d","o","c">>, <<"d","o","c","x">>, <<"t","x","t">>,
      <<"x","l","s">>, <<"x","l","s","x">>, <<"c","s","v">>, <<"r","t","f">>,
      <<"o","d","s">>, <<"p","p","t">>, <<"o","d","p">>, <<"m","d">>,
      <<"h","t","m","l">>, <<"h","t","m">>, <<"e","p","u","b">>,
      <<"p","a","g","e","s">>, <<"f","i","g">>, <<"p","s","d">>, <<"a","i">>,
      <<"i","n","d","d">>, <<"x","d">>, <<"s","k","e","t","c","h">>,
      <<"a","f","d","e","s","i","g","n">>, <<"a","f","p","h","o","t","o">> }

imageExtensions ==
    { <<"j","p","g">>, <<"j","p","e","g">>, <<"p","n","g">>, <<"g","i","f">>,
      <<"b","m","p">>, <<"s","v","g">>, <<"w","e","b","p">> }

videoExtensions ==
    { <<"m","p","4">>, <<"a","v","i">>, <<"m","o","v">>, <<"m","k","v">>,
      <<"w","e","b","m">> }

audioExtensions ==
    { <<"m","p","3">>, <<"w","a","v">>, <<"o","g","g">>, <<"f","l","a","c">> }

\* the lookup without the lower-casing
getFileTypeCaseSensitive(fileName) ==
    LET extension == SplitPop(fileName, ".")
    IN  IF extension = <<>> THEN [type |-> "other", extension |-> <<>>]
        ELSE IF extension \in documentExtensions
             THEN [type |-> "document", extension |-> extension]
        ELSE IF extension \in imageExtensions
             THEN [type |-> "image", extension |-> extension]
        ELSE IF extension \in videoExtensions
             THEN [type |-> "video", extension |-> extension]
        ELSE IF extension \in audioExtensions
             THEN [type |-> "audio", extension |-> extension]
        ELSE [type |-> "other", extension |-> extension]

\* fileName.split('.').pop()?.toLowerCase(), then the four tables in turn
getFileType(fileName) ==
    LET extension == ToLowerCase(SplitPop(fileName, "."))
    IN  IF extension = <<>> THEN [type |-> "other", extension |-> <<>>]
        ELSE IF extension \in documentExtensions
             THEN [type |-> "document", extension |-> extension]
        ELSE IF extension \in imageExtensions
             THEN [type |-> "image", extension |-> extension]
        ELSE IF extension \in videoExtensions
             THEN [type |-> "video", extension |-> extension]
        ELSE IF extension \in audioExtensions
             THEN [type |-> "audio", extension |-> extension]
        ELSE [type |-> "other", extension |-> extension]

(***************************************************************************)
(* Users and sessions.  A session belongs to a user document, or to an     *)
(* account with no user document (getCurrentUser returns null).            *)
(***************************************************************************)
UserIds == {"u1", "u2"}

NoUser == "null"

Sessions == UserIds \cup {NoUser}

EmailOf(u) == <<u, "@mail">>

Emails == {EmailOf(u) : u \in UserIds}

\* account.createEmailToken(ID.unique(), email).userId: the account of the
\* email, which the backend creates when the email has none
accountIdOf(email) == <<"account", email>>

\* the user document createAccount writes
userDocument(fullName, email, accountId) ==
    [fullName |-> fullName, email |-> email, accountId |-> accountId]

\* the users collection the file actions run against: a document for each
\* user
RegisteredUsers ==
    LET Collection[us \in SUBSET UserIds] ==
            IF us = {} THEN <<>>
            ELSE LET u == CHOOSE v \in us : TRUE
                 IN  <<userDocument(<<u>>, EmailOf(u),
                                    accountIdOf(EmailOf(u)))>>
                     \o Collection[us \ {u}]
    IN  Collection[UserIds]

\* a browser with no cookie
NoCookies == [name \in {} |-> <<>>]

\* account.createSession(accountId, password).secret
secretOf(accountId) == <<"secret", accountId>>

\* the sessions of the users of the file actions, each signed in from a
\* browser of their own
SignedIn == {secretOf(accountIdOf(EmailOf(u))) : u \in UserIds}

\* getCurrentUser: the user document of the session, or null
getCurrentUser(session) ==
    IF session = NoUser THEN [id |-> NoUser, email |-> <<>>]
    ELSE [id |-> session, email |-> EmailOf(session)]

(***************************************************************************)
(* The inputs the callers pass.                                            *)
(***************************************************************************)
Procs == 1..MaxProcs

DocIds == 1..MaxFiles

\* ID.unique() of the n-th upload, as the storage bucket's file id
BlobId(n) == <<"blob", n>>

BlobIds == {BlobId(n) : n \in 1..MaxFiles}

\* the File objects uploaded: name and byte size
UploadFiles ==
    { [name |-> <<"a", ".", "m", "d">>, size |-> 1000],
      [name |-> <<"m", "d">>, size |-> 2000],
      [name |-> <<"a", ".", "P", "N", "G">>, size |-> 500] }

\* the name and extension passed to renameFile
RenameInputs ==
    { [name |-> <<"b">>, extension |-> <<"m", "d">>],
      [name |-> <<"b", ".", "M", "D">>, extension |-> <<"m", "d">>],
      [name |-> <<"b", ".", "m", "d">>, extension |-> <<"p", "n", "g">>] }

\* the collaborator lists passed to updateFileUsers
EmailLists == UNION {[1..n -> Emails] : n \in 0..MaxShare}

\* the parameters passed to getFiles; limit 0 stands for an absent limit
GetFilesInputs ==
    { [types |-> <<>>, searchText |-> <<>>, sort |-> <<>>, limit |-> 0],
      [types |-> <<"image">>, searchText |-> <<>>,
       sort |-> <<"size", "-", "asc">>, limit |-> 0],
      [types |-> <<>>, searchText |-> <<"a">>,
       sort |-> <<"$createdAt", "-", "asc">>, limit |-> 1] }

NoQuery == [types |-> <<>>, searchText |-> <<>>, sort |-> <<>>, limit |-> 0]

NoFile == [name |-> <<>>, size |-> 0]

(***************************************************************************)
(* State.                                                                  *)
(***************************************************************************)
VARIABLES
    files,    \* the files collection: document id -> document
    blobs,    \* the ids of the files the storage bucket holds
    ids,      \* uploads started: ID.unique() values handed out
    clock,    \* the backend's time, advanced by every write
    proc,     \* each request in flight: its action, parameters and position
    out,      \* the call that ended last: its parameters and its outcome
    calls,    \* server-action calls started
    faults,   \* backend calls that failed for an outside reason
    users,    \* the users collection: the user documents, oldest first
    cookies,  \* the cookies of one browser: cookie name -> value
    active    \* the secrets of the sessions the backend holds

vars ==
    <<files, blobs, ids, clock, proc, out, calls, faults, users, cookies,
      active>>

NoBody == [none |-> TRUE]

NoResult == [kind |-> "none", tag |-> "none", body |-> NoBody]

\* return parseStringify(value)
Return(tag, body) == [kind |-> "return", tag |-> tag, body |-> body]

\* handleError: logs, then throws the error it was given
handleError(error) == [kind |-> "throw", tag |-> error, body |-> NoBody]

IdleProc ==
    [op |-> "none", pc |-> "idle", user |-> NoUser, fileId |-> 0,
     name |-> <<>>, extension |-> <<>>, emails |-> <<>>,
     bucketFileId |-> BlobId(0), file |-> NoFile, ownerId |-> NoUser,
     query |-> NoQuery, bucketFile |-> BlobId(0), email |-> <<>>,
     fullName |-> <<>>, existingUser |-> FALSE, accountId |-> <<>>,
     type |-> "", total |-> 0]

Init ==
    /\ files = <<>>
    /\ blobs = {}
    /\ ids = 0
    /\ clock = 0
    /\ proc = [p \in Procs |-> IdleProc]
    /\ out = [call |-> IdleProc, result |-> NoResult]
    /\ calls = 0
    /\ faults = 0
    /\ users = RegisteredUsers
    /\ cookies = NoCookies
    /\ active = SignedIn

\* a request slot is free to take the next call
CanStart(p) == proc[p].pc = "idle" /\ calls < MaxCalls

\* the outcomes of one backend call: it answers, or fails for an outside
\* reason (network, service)
Outcomes == IF faults < MaxFaults THEN {TRUE, FALSE} ELSE {TRUE}

Fault(ok) == faults' = IF ok THEN faults ELSE faults + 1

\* the outcomes of a step that makes several backend calls in a row: all
\* answer ("none"), or one of them fails and the step ends there
FailurePoints(points) ==
    {"none"} \cup (IF faults < MaxFaults THEN points ELSE {})

FaultAt(failure) == faults' = IF failure = "none" THEN faults ELSE faults + 1

\* the request in slot p, running call, goes on to the step pc
Continue(p, call, pc) ==
    /\ proc' = [proc EXCEPT ![p] = [call EXCEPT !.pc = pc]]
    /\ UNCHANGED out

\* the request in slot p, running call, ends with result
End(p, call, result) ==
    /\ proc' = [proc EXCEPT ![p] = IdleProc]
    /\ out' = [call |-> [call EXCEPT !.pc = "done"], result |-> result]

\* the same for a step of a file action, which writes neither the users
\* collection nor a cookie nor a session
Goto(p, call, pc) ==
    /\ Continue(p, call, pc)
    /\ UNCHANGED <<users, cookies, active>>

Finish(p, call, result) ==
    /\ End(p, call, result)
    /\ UNCHANGED <<users, cookies, active>>

(***************************************************************************)
(* uploadFile.                                                             *)
(***************************************************************************)
\* the document uploadFile writes for the stored file bucketFile
fileDocument(bucketFile, ownerId) ==
    [type |-> getFileType(bucketFile.name).type,
     name |-> bucketFile.name,
     extension |-> getFileType(bucketFile.name).extension,
     size |-> bucketFile.sizeOriginal,
     owner |-> ownerId,
     users |-> <<>>,
     bucketFileId |-> bucketFile.id]

\* databases.createDocument: the stored document, with the backend's fields
NewDocument(id, data, time) ==
    data @@ [id |-> id, createdAt |-> time, updatedAt |-> time]

\* the error the .catch of createDocument hands on, once its own
\* storage.deleteFile has answered (deleted) or thrown
CatchError(error, deleted) ==
    IF deleted THEN error ELSE "storage.deleteFile"

\* storage.createFile(bucketId, ID.unique(), inputFile), for a file of the
\* set uploads, called in a session of the set sessions; uploadFile reads
\* no session: the owner is the ownerId it is passed
UploadFile_createFileBy(p, uploads, sessions) ==
    /\ CanStart(p)
    /\ ids < MaxFiles
    /\ \E file \in uploads, ownerId \in UserIds, session \in sessions,
          ok \in Outcomes :
          LET call == [IdleProc EXCEPT !.op = "uploadFile",
                                       !.user = session,
                                       !.file = file,
                                       !.ownerId = ownerId]
          IN  /\ Fault(ok)
              /\ calls' = calls + 1
              /\ IF ok
                 THEN /\ ids' = ids + 1
                      /\ blobs' = blobs \cup {BlobId(ids + 1)}
                      /\ Goto(p, [call EXCEPT !.bucketFile = BlobId(ids + 1)],
                              "createDocument")
                 ELSE /\ UNCHANGED <<ids, blobs>>
                      /\ Finish(p, call, handleError("storage.createFile"))
    /\ UNCHANGED <<files, clock>>

\* the same, the session of the caller left out of the call's record
UploadFile_createFileOf(p, uploads) ==
    UploadFile_createFileBy(p, uploads, {NoUser})

UploadFile_createFile(p) == UploadFile_createFileOf(p, UploadFiles)

\* databases.createDocument(..., ID.unique(), fileDocument)
UploadFile_createDocument(p) ==
    /\ proc[p].op = "uploadFile"
    /\ proc[p].pc = "createDocument"
    /\ \E ok \in Outcomes :
          LET bucketFile == [id |-> proc[p].bucketFile,
                             name |-> proc[p].file.name,
                             sizeOriginal |-> proc[p].file.size]
              id == bucketFile.id[2]
              newFile == NewDocument(id,
                             fileDocument(bucketFile, proc[p].ownerId),
                             clock + 1)
          IN  /\ Fault(ok)
              /\ IF ok
                 THEN /\ files' = (id :> newFile) @@ files
                      /\ clock' = clock + 1
                      /\ Finish(p, proc[p], Return("document", newFile))
                 ELSE /\ UNCHANGED <<files, clock>>
                      /\ Goto(p, proc[p], "catch")
    /\ UNCHANGED <<blobs, ids, calls>>

\* the .catch of createDocument: storage.deleteFile(bucketId, bucketFile.$id),
\* then handleError(error, ...); the outer catch hands on what was thrown
UploadFile_catch(p) ==
    /\ proc[p].op = "uploadFile"
    /\ proc[p].pc = "catch"
    /\ \E ok \in Outcomes :
          LET deleted == ok /\ proc[p].bucketFile \in blobs
          IN  /\ Fault(ok)
              /\ blobs' = IF deleted THEN blobs \ {proc[p].bucketFile}
                          ELSE blobs
              /\ Finish(p, proc[p],
                        handleError(CatchError("createDocument", deleted)))
    /\ UNCHANGED <<files, ids, clock, calls>>

(***************************************************************************)
(* verifyFileOwnership.                                                    *)
(***************************************************************************)
\* the ownership check left out
IsOwnerUnchecked(fileDoc, currentUser) == TRUE

\* the ownership check also letting a collaborator through
IsOwnerOrCollaborator(fileDoc, currentUser) ==
    \/ fileDoc.owner = currentUser.id
    \/ InSeq(currentUser.email, fileDoc.users)

\* fileDoc.owner.$id === currentUser.$id
IsOwner(fileDoc, currentUser) == fileDoc.owner = currentUser.id

\* the ownership violation thrown, as the earlier revisions do
OwnershipErrorThrown(actionType) == handleError("not the owner")

\* the error object returned for a caller who is not the owner
OwnershipError(actionType) ==
    Return("error", [status |-> "error",
                     message |-> <<"Only the file owner can ", actionType,
                                   " this file">>])

\* a missing user reported by throwing
NotAuthenticatedThrown == handleError("User not authenticated")

NotAuthenticated ==
    Return("error", [status |-> "error",
                     message |-> <<"User not authenticated">>])

\* what verifyFileOwnership gives its caller: isOwner and errorResponse, or
\* the error it throws; found is whether getDocument answered with a document
verifyFileOwnership(session, fileId, actionType, found) ==
    LET currentUser == getCurrentUser(session)
    IN  IF currentUser.id = NoUser
        THEN [isOwner |-> FALSE, threw |-> FALSE,
              errorResponse |-> NotAuthenticated]
        ELSE IF ~found
        THEN [isOwner |-> FALSE, threw |-> TRUE,
              errorResponse |-> handleError("getDocument")]
        ELSE LET isOwner == IsOwner(files[fileId], currentUser)
             IN  [isOwner |-> isOwner, threw |-> FALSE,
                  errorResponse |-> IF isOwner THEN NoResult
                                    ELSE OwnershipError(actionType)]

\* the first step of renameFile, updateFileUsers and deleteFile: the
\* ownership check, then `if (!isOwner) return errorResponse`; an error
\* getCurrentUser throws goes through the caller's catch to handleError
Verify(p, call, actionType, next) ==
    /\ CanStart(p)
    /\ calls' = calls + 1
    /\ \E failure \in FailurePoints(
              {"getCurrentUser"} \cup
              (IF call.user = NoUser THEN {} ELSE {"getDocument"})) :
          LET found == failure = "none" /\ call.fileId \in DOMAIN files
              v == verifyFileOwnership(call.user, call.fileId, actionType,
                                       found)
          IN  /\ FaultAt(failure)
              /\ IF failure = "getCurrentUser"
                 THEN Finish(p, call, handleError("getCurrentUser"))
                 ELSE IF v.isOwner THEN Goto(p, call, next)
                 ELSE Finish(p, call, v.errorResponse)
    /\ UNCHANGED <<files, blobs, ids, clock>>

(***************************************************************************)
(* renameFile.                                                             *)
(***************************************************************************)
\* the suffix check without the lower-casing
hasExtensionCaseSensitive(name, extension) ==
    EndsWith(name, <<".">> \o extension)

\* name.toLowerCase().endsWith(`.${extension.toLowerCase()}`)
hasExtension(name, extension) ==
    EndsWith(ToLowerCase(name), <<".">> \o ToLowerCase(extension))

\* hasExtension ? name : `${name}.${extension}`
newName(name, extension) ==
    IF hasExtension(name, extension) THEN name
    ELSE name \o <<".">> \o extension

\* an update that appends the new collaborators to the ones already there
UpdatedDocumentMerged(doc, data, time) ==
    [k \in DOMAIN doc |->
        IF k = "users" /\ k \in DOMAIN data THEN doc[k] \o data[k]
        ELSE IF k \in DOMAIN data THEN data[k]
        ELSE IF k = "updatedAt" THEN time
        ELSE doc[k]]

\* an update that keeps the name an earlier update wrote
UpdatedDocumentFirstWins(doc, data, time) ==
    [k \in DOMAIN doc |->
        IF k = "name" /\ doc.updatedAt > doc.createdAt THEN doc[k]
        ELSE IF k \in DOMAIN data THEN data[k]
        ELSE IF k = "updatedAt" THEN time
        ELSE doc[k]]

\* an update that leaves the collaborator list as it was
UpdatedDocumentUsersKept(doc, data, time) ==
    [k \in DOMAIN doc |->
        IF k = "users" THEN doc[k]
        ELSE IF k \in DOMAIN data THEN data[k]
        ELSE IF k = "updatedAt" THEN time
        ELSE doc[k]]

\* databases.updateDocument(databaseId, collectionId, fileId, data): the
\* document with the fields of data replaced
UpdatedDocument(doc, data, time) ==
    [k \in DOMAIN doc |->
        IF k \in DOMAIN data THEN data[k]
        ELSE IF k = "updatedAt" THEN time
        ELSE doc[k]]

\* a rename that also re-derives type and extension from the new name
RenameDataRetyped(name, extension) ==
    LET renamed == newName(name, extension)
    IN  [name |-> renamed,
         type |-> getFileType(renamed).type,
         extension |-> getFileType(renamed).extension]

\* the data renameFile passes to updateDocument
RenameData(name, extension) == [name |-> newName(name, extension)]

\* the data updateFileUsers passes to updateDocument
SharingData(emails) == [users |-> emails]

\* an update that creates the document when it is gone
UpdateDocumentUpsert(p, data) ==
    /\ \E ok \in Outcomes :
          LET fileId == proc[p].fileId
              doc == IF fileId \in DOMAIN files THEN files[fileId]
                     ELSE [type |-> "other", name |-> <<>>,
                           extension |-> <<>>, size |-> 0,
                           owner |-> proc[p].user, users |-> <<>>,
                           bucketFileId |-> BlobId(fileId),
                           id |-> fileId, createdAt |-> clock + 1,
                           updatedAt |-> clock + 1]
              updatedFile == UpdatedDocument(doc, data, clock + 1)
          IN  /\ Fault(ok)
              /\ IF ok
                 THEN /\ files' = [f \in DOMAIN files \cup {fileId} |->
                                      IF f = fileId THEN updatedFile
                                      ELSE files[f]]
                      /\ clock' = clock + 1
                      /\ Finish(p, proc[p],
                                Return("document", updatedFile))
                 ELSE /\ UNCHANGED <<files, clock>>
                      /\ Finish(p, proc[p], handleError("updateDocument"))
    /\ UNCHANGED <<blobs, ids, calls>>

\* databases.updateDocument by the request in slot p, which then returns
\* the updated document; a document that is gone makes the call throw
UpdateDocument(p, data) ==
    /\ \E ok \in Outcomes :
          LET fileId == proc[p].fileId
              done == ok /\ fileId \in DOMAIN files
          IN  /\ Fault(ok)
              /\ IF done
                 THEN LET updatedFile ==
                              UpdatedDocument(files[fileId], data, clock + 1)
                      IN  /\ files' = [files EXCEPT ![fileId] = updatedFile]
                          /\ clock' = clock + 1
                          /\ Finish(p, proc[p],
                                    Return("document", updatedFile))
                 ELSE /\ UNCHANGED <<files, clock>>
                      /\ Finish(p, proc[p], handleError("updateDocument"))
    /\ UNCHANGED <<blobs, ids, calls>>

RenameFile_verify(p) ==
    \E session \in Sessions, fileId \in DocIds, input \in RenameInputs :
        Verify(p, [IdleProc EXCEPT !.op = "renameFile",
                                   !.user = session,
                                   !.fileId = fileId,
                                   !.name = input.name,
                                   !.extension = input.extension],
               "rename", "updateDocument")

RenameFile_updateDocument(p) ==
    /\ proc[p].op = "renameFile"
    /\ proc[p].pc = "updateDocument"
    /\ UpdateDocument(p, RenameData(proc[p].name, proc[p].extension))

(***************************************************************************)
(* updateFileUsers.                                                        *)
(***************************************************************************)
UpdateFileUsers_verify(p) ==
    \E session \in Sessions, fileId \in DocIds, emails \in EmailLists :
        Verify(p, [IdleProc EXCEPT !.op = "updateFileUsers",
                                   !.user = session,
                                   !.fileId = fileId,
                                   !.emails = emails],
               "update sharing permissions for", "updateDocument")

UpdateFileUsers_updateDocument(p) ==
    /\ proc[p].op = "updateFileUsers"
    /\ proc[p].pc = "updateDocument"
    /\ UpdateDocument(p, SharingData(proc[p].emails))

(***************************************************************************)
(* deleteFile.                                                             *)
(***************************************************************************)
\* the blob deleted whatever deleteDocument did
AfterDeleteDocumentAlways(deletedFile) == "storage.deleteFile"

\* where deleteFile goes once deleteDocument has answered (deletedFile) or
\* thrown: on to storage.deleteFile, or to the catch
AfterDeleteDocument(deletedFile) ==
    IF deletedFile THEN "storage.deleteFile" ELSE "catch"

\* the blob deleteFile asks the storage to delete
BlobToDelete(call) == call.bucketFileId

\* the blob the document of id fileId references: uploadFile writes
\* bucketFileId: bucketFile.$id, and no later write touches the field
bucketFileIdOf(fileId) == BlobId(fileId)

\* a failed blob deletion passed over: success all the same
DeleteFileResultSwallowed(deleted) ==
    Return("success", [status |-> "success"])

\* how deleteFile ends once storage.deleteFile has answered (deleted) or
\* thrown: parseStringify({ status: 'success' }), or the catch
DeleteFileResult(deleted) ==
    IF deleted THEN Return("success", [status |-> "success"])
    ELSE handleError("storage.deleteFile")

\* the first step of deleteFile, called with a fileId and a bucketFileId
\* of the set arguments
DeleteFile_verifyOf(p, arguments) ==
    \E session \in Sessions, argument \in arguments :
        Verify(p, [IdleProc EXCEPT !.op = "deleteFile",
                                   !.user = session,
                                   !.fileId = argument[1],
                                   !.bucketFileId = argument[2]],
               "delete", "deleteDocument")

DeleteFile_verify(p) == DeleteFile_verifyOf(p, DocIds \X BlobIds)

\* databases.deleteDocument(databaseId, collectionId, fileId)
DeleteFile_deleteDocument(p) ==
    /\ proc[p].op = "deleteFile"
    /\ proc[p].pc = "deleteDocument"
    /\ \E ok \in Outcomes :
          LET fileId == proc[p].fileId
              deletedFile == ok /\ fileId \in DOMAIN files
          IN  /\ Fault(ok)
              /\ files' = IF deletedFile
                          THEN [f \in DOMAIN files \ {fileId} |-> files[f]]
                          ELSE files
              /\ IF AfterDeleteDocument(deletedFile) = "catch"
                 THEN Finish(p, proc[p], handleError("deleteDocument"))
                 ELSE Goto(p, proc[p], AfterDeleteDocument(deletedFile))
    /\ UNCHANGED <<blobs, ids, clock, calls>>

\* storage.deleteFile(bucketId, bucketFileId), then the success object
DeleteFile_deleteFile(p) ==
    /\ proc[p].op = "deleteFile"
    /\ proc[p].pc = "storage.deleteFile"
    /\ \E ok \in Outcomes :
          LET deleted == ok /\ BlobToDelete(proc[p]) \in blobs
          IN  /\ Fault(ok)
              /\ blobs' = IF deleted THEN blobs \ {BlobToDelete(proc[p])}
                          ELSE blobs
              /\ Finish(p, proc[p], DeleteFileResult(deleted))
    /\ UNCHANGED <<files, ids, clock, calls>>

(***************************************************************************)
(* getFiles: createQueries, and the backend's listDocuments.               *)
(***************************************************************************)
Query(method, attribute, values) ==
    [method |-> method, attribute |-> attribute, values |-> values]

\* every ordering ascending, whatever the direction part says
OrderQueriesAscending(sort) ==
    IF sort = <<>> THEN <<>>
    ELSE LET parts == Split(sort, "-")
             sortBy == parts[1]
             orderBy == IF Len(parts) >= 2 THEN parts[2] ELSE <<>>
         IN  IF sortBy # <<>> /\ orderBy # <<>>
             THEN <<Query("orderAsc", sortBy[1], <<>>)>>
             ELSE <<>>

\* sort.split('-'), then orderAsc or orderDesc when both parts are there
OrderQueries(sort) ==
    IF sort = <<>> THEN <<>>
    ELSE LET parts == Split(sort, "-")
             sortBy == parts[1]
             orderBy == IF Len(parts) >= 2 THEN parts[2] ELSE <<>>
         IN  IF sortBy # <<>> /\ orderBy # <<>>
             THEN IF orderBy = <<"asc">>
                  THEN <<Query("orderAsc", sortBy[1], <<>>)>>
                  ELSE <<Query("orderDesc", sortBy[1], <<>>)>>
             ELSE <<>>

\* `if (types)`: the type filter added for an empty list too
createQueriesAlwaysTyped(currentUser, types, searchText, sort, limit) ==
    <<Query("or", "",
            <<Query("equal", "owner", <<currentUser.id>>),
              Query("contains", "users", <<currentUser.email>>)>>),
      Query("equal", "type", types)>>
    \o OrderQueries(sort)

\* the access condition without its collaborator clause
createQueriesOwnerOnly(currentUser, types, searchText, sort, limit) ==
    <<Query("or", "",
            <<Query("equal", "owner", <<currentUser.id>>)>>)>>
    \o (IF Len(types) > 0 THEN <<Query("equal", "type", types)>> ELSE <<>>)
    \o (IF searchText # <<>>
        THEN <<Query("contains", "name", <<searchText>>)>> ELSE <<>>)
    \o (IF limit # 0 THEN <<Query("limit", "", <<limit>>)>> ELSE <<>>)
    \o OrderQueries(sort)

\* the queries without the category filter
createQueriesUntyped(currentUser, types, searchText, sort, limit) ==
    <<Query("or", "",
            <<Query("equal", "owner", <<currentUser.id>>),
              Query("contains", "users", <<currentUser.email>>)>>)>>
    \o (IF searchText # <<>>
        THEN <<Query("contains", "name", <<searchText>>)>> ELSE <<>>)
    \o (IF limit # 0 THEN <<Query("limit", "", <<limit>>)>> ELSE <<>>)
    \o OrderQueries(sort)

\* the queries without the count limit
createQueriesUnlimited(currentUser, types, searchText, sort, limit) ==
    <<Query("or", "",
            <<Query("equal", "owner", <<currentUser.id>>),
              Query("contains", "users", <<currentUser.email>>)>>)>>
    \o (IF Len(types) > 0 THEN <<Query("equal", "type", types)>> ELSE <<>>)
    \o (IF searchText # <<>>
        THEN <<Query("contains", "name", <<searchText>>)>> ELSE <<>>)
    \o OrderQueries(sort)

createQueries(currentUser, types, searchText, sort, limit) ==
    <<Query("or", "",
            <<Query("equal", "owner", <<currentUser.id>>),
              Query("contains", "users", <<currentUser.email>>)>>)>>
    \o (IF Len(types) > 0 THEN <<Query("equal", "type", types)>> ELSE <<>>)
    \o (IF searchText # <<>>
        THEN <<Query("contains", "name", <<searchText>>)>> ELSE <<>>)
    \o (IF limit # 0 THEN <<Query("limit", "", <<limit>>)>> ELSE <<>>)
    \o OrderQueries(sort)

\* the attribute of a document a query names
Attribute(doc, attribute) ==
    CASE attribute = "owner" -> doc.owner
      [] attribute = "users" -> doc.users
      [] attribute = "type" -> doc.type
      [] attribute = "name" -> doc.name
      [] attribute = "size" -> doc.size
      [] attribute = "$createdAt" -> doc.createdAt
      [] attribute = "$updatedAt" -> doc.updatedAt

\* whether doc passes the filter query q (ordering and limit filter nothing)
RECURSIVE Matches(_, _)
Matches(doc, q) ==
    CASE q.method = "or" ->
            \E i \in 1..Len(q.values) : Matches(doc, q.values[i])
      [] q.method = "equal" -> InSeq(Attribute(doc, q.attribute), q.values)
      [] q.method = "contains" ->
            IF q.attribute = "users"
            THEN \E i \in 1..Len(q.values) : InSeq(q.values[i], doc.users)
            ELSE \E i \in 1..Len(q.values) :
                     Includes(Attribute(doc, q.attribute), q.values[i])
      [] OTHER -> TRUE

\* the characters of names in their code order
CharOrder ==
    <<".", "0", "1", "2", "3", "4", "5", "6", "7", "8", "9">>
    \o UpperChars \o LowerChars

CharCode(c) == CHOOSE i \in 1..Len(CharOrder) : CharOrder[i] = c

\* string s sorts before string t
RECURSIVE StringLess(_, _)
StringLess(s, t) ==
    IF t = <<>> THEN FALSE
    ELSE IF s = <<>> THEN TRUE
    ELSE IF Head(s) = Head(t) THEN StringLess(Tail(s), Tail(t))
    ELSE CharCode(Head(s)) < CharCode(Head(t))

\* value x of attribute sorts before value y
Less(attribute, x, y) ==
    IF attribute = "name" THEN StringLess(x, y) ELSE x < y

\* doc a comes before doc b under the ordering queries, in turn; documents
\* the orderings do not tell apart keep their order of insertion
RECURSIVE Before(_, _, _)
Before(a, b, orders) ==
    IF orders = <<>> THEN a.createdAt < b.createdAt
    ELSE LET q == Head(orders)
             x == Attribute(a, q.attribute)
             y == Attribute(b, q.attribute)
         IN  IF x = y THEN Before(a, b, Tail(orders))
             ELSE IF q.method = "orderAsc" THEN Less(q.attribute, x, y)
             ELSE Less(q.attribute, y, x)

\* the documents of the set docs as the sequence the orderings give
RECURSIVE Ordered(_, _)
Ordered(docs, orders) ==
    IF docs = {} THEN <<>>
    ELSE LET first == CHOOSE a \in docs :
                          \A b \in docs \ {a} : Before(a, b, orders)
         IN  <<first>> \o Ordered(docs \ {first}, orders)

SelectQueries(queries, methods) ==
    SelectSeq(queries, LAMBDA q : q.method \in methods)

\* databases.listDocuments(databaseId, collectionId, queries): the matching
\* documents in order, cut to the limit when the queries hold one (the
\* backend's own page size is larger than any collection explored here)
listDocuments(queries) ==
    LET matching == {files[f] : f \in
                        {g \in DOMAIN files :
                            \A i \in 1..Len(queries) :
                                Matches(files[g], queries[i])}}
        ordered == Ordered(matching,
                           SelectQueries(queries, {"orderAsc", "orderDesc"}))
        limits == SelectQueries(queries, {"limit"})
        count == IF limits = <<>> \/ limits[Len(limits)].values[1] > Len(ordered)
                 THEN Len(ordered)
                 ELSE limits[Len(limits)].values[1]
    IN  [total |-> Cardinality(matching),
         documents |-> SubSeq(ordered, 1, count)]

\* the whole of getFiles, called with parameters of the set inputs: one
\* listDocuments call
GetFilesOf(p, inputs) ==
    /\ CanStart(p)
    /\ calls' = calls + 1
    /\ \E session \in Sessions, query \in inputs :
          \E failure \in FailurePoints(
                  {"getCurrentUser"} \cup
                  (IF session = NoUser THEN {} ELSE {"listDocuments"})) :
          LET call == [IdleProc EXCEPT !.op = "getFiles",
                                       !.user = session,
                                       !.query = query]
              currentUser == getCurrentUser(session)
              sortValue == IF query.sort # <<>> THEN query.sort
                           ELSE <<"$createdAt", "-", "desc">>
              queries == createQueries(currentUser, query.types,
                                       query.searchText, sortValue,
                                       query.limit)
          IN  /\ FaultAt(failure)
              /\ Finish(p, call,
                   IF failure = "getCurrentUser"
                   THEN handleError("getCurrentUser")
                   ELSE IF currentUser.id = NoUser
                   THEN handleError("User not found")
                   ELSE IF failure = "listDocuments"
                   THEN handleError("listDocuments")
                   ELSE Return("list", listDocuments(queries)))
    /\ UNCHANGED <<files, blobs, ids, clock>>

(***************************************************************************)
(* getTotalSpaceUsed.                                                      *)
(***************************************************************************)
FileTypes == {"image", "document", "video", "audio", "other"}

\* a JavaScript number that may pass 2^31, held as <<millions, units>>:
\* the whole number millions * 10^6 + units
Num(n) == <<n \div 1000000, n % 1000000>>

\* a + b
Plus(a, b) ==
    <<a[1] + b[1] + ((a[2] + b[2]) \div 1000000), (a[2] + b[2]) % 1000000>>

\* a * k, for a factor k up to 1024
Times(a, k) ==
    <<a[1] * k + ((a[2] * k) \div 1000000), (a[2] * k) % 1000000>>

\* 2 * 1024 * 1024 * 1024: the 2GB available bucket storage
all == Times(Times(Times(Num(2), 1024), 1024), 1024)

\* a date string: '' is <<>>, the time t is <<t>>
NoDate == <<>>

DateOf(time) == <<time>>

\* the totalSpace object getTotalSpaceUsed starts from
totalSpace ==
    [image |-> [size |-> Num(0), latestDate |-> NoDate],
     document |-> [size |-> Num(0), latestDate |-> NoDate],
     video |-> [size |-> Num(0), latestDate |-> NoDate],
     audio |-> [size |-> Num(0), latestDate |-> NoDate],
     other |-> [size |-> Num(0), latestDate |-> NoDate],
     used |-> Num(0),
     all |-> all]

\* the test that keeps the earliest date instead of the latest
IsLaterEarliest(updatedAt, latestDate) ==
    latestDate = NoDate \/ updatedAt[1] < latestDate[1]

\* !latestDate || new Date(file.$updatedAt) > new Date(latestDate)
IsLater(updatedAt, latestDate) ==
    latestDate = NoDate \/ updatedAt[1] > latestDate[1]

\* the size added to used only, not to the category
AddFileUsedOnly(total, file) ==
    [total EXCEPT !.used = Plus(@, Num(file.size))]

\* the body of the forEach for one file
AddFile(total, file) ==
    LET fileType == file.type
        sized == [total EXCEPT ![fileType].size = Plus(@, Num(file.size)),
                               !.used = Plus(@, Num(file.size))]
    IN  IF IsLater(DateOf(file.updatedAt), sized[fileType].latestDate)
        THEN [sized EXCEPT ![fileType].latestDate = DateOf(file.updatedAt)]
        ELSE sized

\* files.documents.forEach(...) over the documents in the order given
RECURSIVE ForEach(_, _)
ForEach(documents, total) ==
    IF documents = <<>> THEN total
    ELSE ForEach(Tail(documents), AddFile(total, Head(documents)))

\* the query that also takes the records shared with the user
SpaceQueriesShared(currentUser) ==
    <<Query("or", "",
            <<Query("equal", "owner", <<currentUser.id>>),
              Query("contains", "users", <<currentUser.email>>)>>)>>

\* [Query.equal('owner', [currentUser.$id])]
SpaceQueries(currentUser) ==
    <<Query("equal", "owner", <<currentUser.id>>)>>

\* the orders in which the backend may answer a query that gives none
Arrangements(documents) ==
    {s \in [1..Len(documents) ->
                {documents[i] : i \in 1..Len(documents)}] :
        \A i, j \in 1..Len(documents) : s[i] = s[j] => i = j}

\* the whole of getTotalSpaceUsed: one listDocuments call and the fold
GetTotalSpaceUsed(p) ==
    /\ CanStart(p)
    /\ calls' = calls + 1
    /\ \E session \in Sessions :
          \E failure \in FailurePoints(
                  {"getCurrentUser"} \cup
                  (IF session = NoUser THEN {} ELSE {"listDocuments"})) :
          LET call == [IdleProc EXCEPT !.op = "getTotalSpaceUsed",
                                       !.user = session]
              currentUser == getCurrentUser(session)
              found == listDocuments(SpaceQueries(currentUser)).documents
          IN  /\ FaultAt(failure)
              /\ IF failure = "getCurrentUser"
                 THEN Finish(p, call, handleError("getCurrentUser"))
                 ELSE IF currentUser.id = NoUser
                 THEN Finish(p, call,
                             handleError("User is not authenticated."))
                 ELSE IF failure = "listDocuments"
                 THEN Finish(p, call, handleError("listDocuments"))
                 ELSE \E documents \in Arrangements(found) :
                          Finish(p, call,
                                 Return("totalSpace",
                                        ForEach(documents, totalSpace)))
    /\ UNCHANGED <<files, blobs, ids, clock>>

GetFiles(p) == GetFilesOf(p, GetFilesInputs)

Next ==
    \E p \in Procs :
        \/ UploadFile_createFile(p)
        \/ UploadFile_createDocument(p)
        \/ UploadFile_catch(p)
        \/ RenameFile_verify(p)
        \/ RenameFile_updateDocument(p)
        \/ UpdateFileUsers_verify(p)
        \/ UpdateFileUsers_updateDocument(p)
        \/ DeleteFile_verify(p)
        \/ DeleteFile_deleteDocument(p)
        \/ DeleteFile_deleteFile(p)
        \/ GetFiles(p)
        \/ GetTotalSpaceUsed(p)

Spec == Init /\ [][Next]_vars

(***************************************************************************)
(* createAccount: getUserByEmail, sendEmailOTP and, for an email with no   *)
(* user document at the time of the lookup, the new user document.         *)
(***************************************************************************)
\* the full names passed to createAccount
FullNames == {<<"A">>, <<"B">>}

\* getUserByEmail: whether listDocuments(equal('email', [email])) finds a
\* document (createAccount reads no more of it than that)
getUserByEmail(email) ==
    \E i \in 1..Len(users) : users[i].email = email

\* await getUserByEmail(email); a backend error leaves createAccount as it
\* is thrown
CreateAccount_getUserByEmail(p) ==
    /\ CanStart(p)
    /\ calls' = calls + 1
    /\ \E fullName \in FullNames, email \in Emails, ok \in Outcomes :
          LET call == [IdleProc EXCEPT !.op = "createAccount",
                                       !.fullName = fullName,
                                       !.email = email]
          IN  /\ Fault(ok)
              /\ IF ok
                 THEN Continue(p, [call EXCEPT !.existingUser =
                                                  getUserByEmail(email)],
                               "sendEmailOTP")
                 ELSE End(p, call, handleError("listDocuments"))
    /\ UNCHANGED <<files, blobs, ids, clock, users, cookies, active>>

\* await sendEmailOTP(email): account.createEmailToken, whose error
\* handleError throws again; then the return for an existing user
CreateAccount_sendEmailOTP(p) ==
    /\ proc[p].op = "createAccount"
    /\ proc[p].pc = "sendEmailOTP"
    /\ \E ok \in Outcomes :
          LET call == [proc[p] EXCEPT !.accountId = accountIdOf(proc[p].email)]
          IN  /\ Fault(ok)
              /\ IF ~ok
                 THEN End(p, proc[p], handleError("createEmailToken"))
                 ELSE IF ~proc[p].existingUser
                 THEN Continue(p, call, "getInitials")
                 ELSE End(p, call,
                          Return("accountId", [accountId |-> call.accountId]))
    /\ UNCHANGED <<files, blobs, ids, clock, calls, users, cookies,
                   active>>

\* await avatars.getInitials()
CreateAccount_getInitials(p) ==
    /\ proc[p].op = "createAccount"
    /\ proc[p].pc = "getInitials"
    /\ \E ok \in Outcomes :
          /\ Fault(ok)
          /\ IF ok THEN Continue(p, proc[p], "createDocument")
             ELSE End(p, proc[p], handleError("getInitials"))
    /\ UNCHANGED <<files, blobs, ids, clock, calls, users, cookies,
                   active>>

\* await databases.createDocument(databaseId, usersCollectionId,
\* ID.unique(), {fullName, email, avatar, accountId}), then the return
CreateAccount_createDocument(p) ==
    /\ proc[p].op = "createAccount"
    /\ proc[p].pc = "createDocument"
    /\ \E ok \in Outcomes :
          /\ Fault(ok)
          /\ IF ok
             THEN /\ users' = Append(users,
                                     userDocument(proc[p].fullName,
                                                  proc[p].email,
                                                  proc[p].accountId))
                  /\ End(p, proc[p],
                         Return("accountId",
                                [accountId |-> proc[p].accountId]))
             ELSE /\ UNCHANGED users
                  /\ End(p, proc[p], handleError("createDocument"))
    /\ UNCHANGED <<files, blobs, ids, clock, calls, cookies, active>>

\* no user document yet, and no cookie
AccountInit ==
    /\ files = <<>>
    /\ blobs = {}
    /\ ids = 0
    /\ clock = 0
    /\ proc = [p \in Procs |-> IdleProc]
    /\ out = [call |-> IdleProc, result |-> NoResult]
    /\ calls = 0
    /\ faults = 0
    /\ users = <<>>
    /\ cookies = NoCookies
    /\ active = {}

AccountNext ==
    \E p \in Procs :
        \/ CreateAccount_getUserByEmail(p)
        \/ CreateAccount_sendEmailOTP(p)
        \/ CreateAccount_getInitials(p)
        \/ CreateAccount_createDocument(p)

AccountSpec == AccountInit /\ [][AccountNext]_vars

(***************************************************************************)
(* Signing in and out: verifySecret, createSessionClient with              *)
(* getCurrentUser, and signOUtUser, called from one browser.               *)
(***************************************************************************)
\* the cookie createSessionClient reads
SessionCookie == "appwrite_session"

\* the cookie verifySecret sets: "appwrite-session" in the verifySecret next
\* to signOUtUser, "appwrite_session" in the other revisions of it
VerifySecretCookies == {"appwrite-session", "appwrite_session"}

\* the cookie signOUtUser deletes
SignOutCookie == "appwrite-session"

\* cookies().set(name, value)
SetCookie(jar, name, value) ==
    [n \in DOMAIN jar \cup {name} |-> IF n = name THEN value ELSE jar[n]]

\* cookies().delete(name)
DeleteCookie(jar, name) == [n \in DOMAIN jar \ {name} |-> jar[n]]

\* createSessionClient: whether it goes on to return a client, which it
\* does not with `!session || !session.value`
hasSession(jar) == SessionCookie \in DOMAIN jar /\ jar[SessionCookie] # <<>>

\* redirect('/sign-in')
Redirect == [kind |-> "redirect", tag |-> "/sign-in", body |-> NoBody]

\* the whole of verifySecret: account.createSession(accountId, password),
\* which rejects a wrong password, then the cookie and the return
VerifySecret(p) ==
    /\ CanStart(p)
    /\ calls' = calls + 1
    /\ \E user \in UserIds, correct \in BOOLEAN, name \in VerifySecretCookies,
          ok \in Outcomes :
          LET accountId == accountIdOf(EmailOf(user))
              call == [IdleProc EXCEPT !.op = "verifySecret",
                                       !.accountId = accountId]
          IN  /\ Fault(ok)
              /\ IF ok /\ correct
                 THEN /\ active' = active \cup {secretOf(accountId)}
                      /\ cookies' = SetCookie(cookies, name,
                                              secretOf(accountId))
                      /\ End(p, call,
                             Return("sessionId",
                                    [sessionId |-> secretOf(accountId)]))
                 ELSE /\ UNCHANGED <<active, cookies>>
                      /\ End(p, call, handleError("createSession"))
    /\ UNCHANGED <<files, blobs, ids, clock, users>>

\* users.documents[0] of listDocuments(equal('accountId', accountId)), or
\* null
userOfAccount(accountId) ==
    LET found == {i \in 1..Len(users) : users[i].accountId = accountId}
    IN  IF found = {} THEN Return("null", NoBody)
        ELSE Return("user", users[CHOOSE i \in found :
                                      \A j \in found : i <= j])

\* the whole of getCurrentUser as the browser calls it: createSessionClient,
\* account.get(), which rejects a session the backend does not hold, and
\* listDocuments
GetCurrentUser(p) ==
    /\ CanStart(p)
    /\ calls' = calls + 1
    /\ \E failure \in FailurePoints(
              IF hasSession(cookies) /\ cookies[SessionCookie] \in active
              THEN {"account.get", "listDocuments"} ELSE {}) :
          LET call == [IdleProc EXCEPT !.op = "getCurrentUser"]
          IN  /\ FaultAt(failure)
              /\ IF ~hasSession(cookies) THEN End(p, call, Redirect)
                 ELSE IF cookies[SessionCookie] \notin active
                 THEN End(p, call, handleError("account.get"))
                 ELSE IF failure # "none"
                 THEN End(p, call, handleError(failure))
                 ELSE End(p, call,
                          userOfAccount(cookies[SessionCookie][2]))
    /\ UNCHANGED <<files, blobs, ids, clock, users, cookies, active>>

\* the whole of signOUtUser: createSessionClient, then
\* account.deleteSession('current') and the cookie's deletion, and the
\* redirect of `finally` whatever happened
SignOutUser(p) ==
    /\ CanStart(p)
    /\ calls' = calls + 1
    /\ \E ok \in (IF hasSession(cookies) THEN Outcomes ELSE {TRUE}) :
          LET call == [IdleProc EXCEPT !.op = "signOUtUser"]
              deleted == /\ ok
                         /\ hasSession(cookies)
                         /\ cookies[SessionCookie] \in active
          IN  /\ Fault(ok)
              /\ active' = IF deleted THEN active \ {cookies[SessionCookie]}
                           ELSE active
              /\ cookies' = IF deleted THEN DeleteCookie(cookies, SignOutCookie)
                            ELSE cookies
              /\ End(p, call, Redirect)
    /\ UNCHANGED <<files, blobs, ids, clock, users>>

\* the users of the file actions, none of them signed in, and a browser
\* with no cookie or with an empty session cookie
AuthInit ==
    /\ files = <<>>
    /\ blobs = {}
    /\ ids = 0
    /\ clock = 0
    /\ proc = [p \in Procs |-> IdleProc]
    /\ out = [call |-> IdleProc, result |-> NoResult]
    /\ calls = 0
    /\ faults = 0
    /\ users = RegisteredUsers
    /\ cookies \in {NoCookies, SetCookie(NoCookies, SessionCookie, <<>>)}
    /\ active = {}

AuthNext ==
    \E p \in Procs : VerifySecret(p) \/ GetCurrentUser(p) \/ SignOutUser(p)

AuthSpec == AuthInit /\ [][AuthNext]_vars

(***************************************************************************)
(* getTotalSpaceUsed over the collections that uploads and sharing updates *)
(* leave behind.                                                           *)
(***************************************************************************)
\* the files uploaded: those of UploadFiles and one of 1.5 GB
SpaceFiles ==
    UploadFiles \cup
    {[name |-> <<"a", ".", "m", "p", "4">>, size |-> 1500000000]}

\* the record the id-th upload, of file by ownerId at time, leaves
StoredFile(id, file, ownerId, time) ==
    NewDocument(id,
                fileDocument([id |-> BlobId(id), name |-> file.name,
                              sizeOriginal |-> file.size], ownerId),
                time)

\* a collaborator list that holds another user than ownerId
SharedWith(ownerId) ==
    CHOOSE emails \in [1..1 -> Emails] : emails[1] # EmailOf(ownerId)

\* the collection after n uploads, the i-th of choice[i] = <<file, owner,
\* shared>>, and then a sharing update of each shared record, the last
\* uploaded first
SpaceCollection(n, choice) ==
    [i \in 1..n |->
        LET created == StoredFile(i, choice[i][1], choice[i][2], i)
        IN  IF choice[i][3]
            THEN UpdatedDocument(created,
                                 SharingData(SharedWith(choice[i][2])),
                                 2 * n + 1 - i)
            ELSE created]

\* such a collection, with one call and one backend failure to come
SpaceInit ==
    /\ \E n \in 0..MaxRecords :
          \E choice \in [1..n -> SpaceFiles \X UserIds \X BOOLEAN] :
              /\ files = SpaceCollection(n, choice)
              /\ blobs = {BlobId(i) : i \in 1..n}
              /\ ids = n
              /\ clock = 2 * n
    /\ proc = [p \in Procs |-> IdleProc]
    /\ out = [call |-> IdleProc, result |-> NoResult]
    /\ calls = MaxCalls - 1
    /\ faults = MaxFaults - 1
    /\ users = RegisteredUsers
    /\ cookies = NoCookies
    /\ active = SignedIn

SpaceNext == \E p \in Procs : GetTotalSpaceUsed(p)

SpaceSpec == SpaceInit /\ [][SpaceNext]_vars

(***************************************************************************)
(* uploadFile over file names of every kind: one upload, into a collection *)
(* and a bucket that earlier uploads and deletions left empty.             *)
(***************************************************************************)
\* "a." + each extension of the four tables; upper and mixed case; an
\* extension of no table; an empty extension; no dot; several dots; a
\* leading dot
TypeNames ==
    { <<"a", ".">> \o extension :
          extension \in documentExtensions \cup imageExtensions
                            \cup videoExtensions \cup audioExtensions }
    \cup
    { <<"a", ".", "P", "N", "G">>, <<"a", ".", "M", "p", "3">>,
      <<"a", ".", "x", "y", "z">>, <<"a", ".">>, <<"a">>,
      <<"p", "d", "f">>, <<"a", ".", "b", ".", "p", "d", "f">>,
      <<"a", ".", "p", "d", "f", ".", "x", "y", "z">>,
      <<"a", ".", "p", "d", "f", ".">>, <<".", "p", "n", "g">> }

TypeFiles == {[name |-> name, size |-> Len(name)] : name \in TypeNames}

\* no record and no blob, with one upload, one call and one backend failure
\* to come
TypeInit ==
    /\ files = <<>>
    /\ blobs = {}
    /\ ids = MaxFiles - 1
    /\ clock = MaxFiles - 1
    /\ proc = [p \in Procs |-> IdleProc]
    /\ out = [call |-> IdleProc, result |-> NoResult]
    /\ calls = MaxCalls - 1
    /\ faults = MaxFaults - 1
    /\ users = RegisteredUsers
    /\ cookies = NoCookies
    /\ active = SignedIn

TypeNext ==
    \E p \in Procs :
        \/ UploadFile_createFileOf(p, TypeFiles)
        \/ UploadFile_createDocument(p)
        \/ UploadFile_catch(p)

TypeSpec == TypeInit /\ [][TypeNext]_vars

(***************************************************************************)
(* Sharing, deletion and listing of a file that is shared already.         *)
(***************************************************************************)
\* the collection after one upload ("a.md" by the first user) and a sharing
\* update that put another user on its list
SharedCollection ==
    LET owner == CHOOSE u \in UserIds : TRUE
        file == CHOOSE f \in UploadFiles : f.size = 1000
    IN  SpaceCollection(1, <<<<file, owner, TRUE>>>>)

ShareInit ==
    /\ files = SharedCollection
    /\ blobs = {BlobId(1)}
    /\ ids = 1
    /\ clock = 2
    /\ proc = [p \in Procs |-> IdleProc]
    /\ out = [call |-> IdleProc, result |-> NoResult]
    /\ calls = 0
    /\ faults = 0
    /\ users = RegisteredUsers
    /\ cookies = NoCookies
    /\ active = SignedIn

ShareNext ==
    \E p \in Procs :
        \/ UpdateFileUsers_verify(p)
        \/ UpdateFileUsers_updateDocument(p)
        \/ DeleteFile_verify(p)
        \/ DeleteFile_deleteDocument(p)
        \/ DeleteFile_deleteFile(p)
        \/ GetFiles(p)

ShareSpec == ShareInit /\ [][ShareNext]_vars

(***************************************************************************)
(* uploadFile, called in every session and without one.                    *)
(***************************************************************************)
UploadInit ==
    /\ files = <<>>
    /\ blobs = {}
    /\ ids = 0
    /\ clock = 0
    /\ proc = [p \in Procs |-> IdleProc]
    /\ out = [call |-> IdleProc, result |-> NoResult]
    /\ calls = MaxCalls - MaxFiles
    /\ faults = MaxFaults - 1
    /\ users = RegisteredUsers
    /\ cookies = NoCookies
    /\ active = SignedIn

UploadNext ==
    \E p \in Procs :
        \/ UploadFile_createFileBy(p, UploadFiles, Sessions)
        \/ UploadFile_createDocument(p)
        \/ UploadFile_catch(p)

UploadSpec == UploadInit /\ [][UploadNext]_vars

(***************************************************************************)
(* Uploads, renames, sharing updates and deletions, each deleteFile called *)
(* with the bucketFileId of the record it names.                           *)
(***************************************************************************)
OwnBucketFileIds == {<<fileId, bucketFileIdOf(fileId)>> : fileId \in DocIds}

ProperNext ==
    \E p \in Procs :
        \/ UploadFile_createFile(p)
        \/ UploadFile_createDocument(p)
        \/ UploadFile_catch(p)
        \/ RenameFile_verify(p)
        \/ RenameFile_updateDocument(p)
        \/ UpdateFileUsers_verify(p)
        \/ UpdateFileUsers_updateDocument(p)
        \/ DeleteFile_verifyOf(p, OwnBucketFileIds)
        \/ DeleteFile_deleteDocument(p)
        \/ DeleteFile_deleteFile(p)

ProperSpec == Init /\ [][ProperNext]_vars

(***************************************************************************)
(* getFiles, with every kind of sort string and limit, over the            *)
(* collections that uploads leave behind.                                  *)
(***************************************************************************)
\* the files uploaded: no two of them in the same place by name, by size
ListFiles == {file \in SpaceFiles : getFileType(file.name).type # "image"}

\* the sort strings: absent, three fields in both directions, a direction
\* that is neither asc nor desc, and strings with no field or no direction
SortStrings ==
    { <<>>,
      <<"$createdAt", "-", "desc">>, <<"$createdAt", "-", "asc">>,
      <<"name", "-", "asc">>, <<"name", "-", "desc">>,
      <<"size", "-", "asc">>, <<"size", "-", "desc">>,
      <<"size", "-", "down">>, <<"size">>, <<"size", "-">>,
      <<"-", "asc">> }

ListInputs ==
    { [NoQuery EXCEPT !.sort = sort] : sort \in SortStrings }
    \cup
    { [NoQuery EXCEPT !.limit = limit, !.sort = sort, !.types = types] :
          limit \in 1..(MaxRecords - 1),
          sort \in {<<>>, <<"name", "-", "asc">>},
          types \in {<<>>, <<"document">>} }

\* such a collection of files nobody shares, with one call and one backend
\* failure to come
ListInit ==
    /\ \E n \in 0..MaxRecords :
          \E choice \in [1..n -> ListFiles \X UserIds \X {FALSE}] :
              /\ files = SpaceCollection(n, choice)
              /\ blobs = {BlobId(i) : i \in 1..n}
              /\ ids = n
              /\ clock = 2 * n
    /\ proc = [p \in Procs |-> IdleProc]
    /\ out = [call |-> IdleProc, result |-> NoResult]
    /\ calls = MaxCalls - 1
    /\ faults = MaxFaults - 1
    /\ users = RegisteredUsers
    /\ cookies = NoCookies
    /\ active = SignedIn

ListNext == \E p \in Procs : GetFilesOf(p, ListInputs)

ListSpec == ListInit /\ [][ListNext]_vars

(***************************************************************************)
(* The category page /[type]: getFileTypesParams, getFiles, and the part   *)
(* of getTotalSpaceUsed's totals it shows.                                 *)
(***************************************************************************)
\* the route types: the four the navigation links to, one it does not, and
\* none
RouteTypes == {"documents", "images", "media", "others", "dashboard", ""}

getFileTypesParams(type) ==
    CASE type = "documents" -> <<"document">>
      [] type = "images" -> <<"image">>
      [] type = "media" -> <<"video", "audio">>
      [] type = "others" -> <<"other">>
      [] OTHER -> <<"document">>

\* currentTypeStorage: the size the page shows for the route type
currentTypeStorage(type, totalStorageUsed) ==
    CASE type = "images" -> totalStorageUsed.image.size
      [] type = "documents" -> totalStorageUsed.document.size
      [] type = "media" -> Plus(totalStorageUsed.video.size,
                                totalStorageUsed.audio.size)
      [] type = "others" -> totalStorageUsed.other.size
      [] OTHER -> totalStorageUsed.used

\* await getFiles({types, searchText, sort}), for a visit with no search
\* text and no sort; an error getFiles throws ends the rendering
Page_getFiles(p) ==
    /\ CanStart(p)
    /\ calls' = calls + 1
    /\ \E session \in Sessions, type \in RouteTypes :
          \E failure \in FailurePoints(
                  {"getCurrentUser"} \cup
                  (IF session = NoUser THEN {} ELSE {"listDocuments"})) :
          LET types == getFileTypesParams(type)
              call == [IdleProc EXCEPT !.op = "Page",
                                       !.user = session,
                                       !.type = type,
                                       !.query = [NoQuery EXCEPT
                                                      !.types = types]]
              currentUser == getCurrentUser(session)
              queries == createQueries(currentUser, types, <<>>,
                                       <<"$createdAt", "-", "desc">>, 0)
          IN  /\ FaultAt(failure)
              /\ IF failure = "getCurrentUser"
                 THEN Finish(p, call, handleError("getCurrentUser"))
                 ELSE IF currentUser.id = NoUser
                 THEN Finish(p, call, handleError("User not found"))
                 ELSE IF failure = "listDocuments"
                 THEN Finish(p, call, handleError("listDocuments"))
                 ELSE Goto(p, [call EXCEPT !.total =
                                   listDocuments(queries).total],
                           "getTotalSpaceUsed")
    /\ UNCHANGED <<files, blobs, ids, clock>>

\* await getTotalSpaceUsed(), then the page: its title, the size it shows
\* and the number of files it found
Page_getTotalSpaceUsed(p) ==
    /\ proc[p].op = "Page"
    /\ proc[p].pc = "getTotalSpaceUsed"
    /\ \E failure \in FailurePoints({"getCurrentUser", "listDocuments"}) :
          LET currentUser == getCurrentUser(proc[p].user)
              found == listDocuments(SpaceQueries(currentUser)).documents
          IN  /\ FaultAt(failure)
              /\ IF failure # "none"
                 THEN Finish(p, proc[p], handleError(failure))
                 ELSE \E documents \in Arrangements(found) :
                          Finish(p, proc[p],
                                 Return("page",
                                        [type |-> proc[p].type,
                                         total |-> proc[p].total,
                                         currentTypeStorage |->
                                             currentTypeStorage(
                                                 proc[p].type,
                                                 ForEach(documents,
                                                         totalSpace))]))
    /\ UNCHANGED <<files, blobs, ids, clock, calls>>

\* a collection of up to MaxFiles files, with one visit and one backend
\* failure to come
PageInit ==
    /\ \E n \in 0..MaxFiles :
          \E choice \in [1..n -> SpaceFiles \X UserIds \X BOOLEAN] :
              /\ files = SpaceCollection(n, choice)
              /\ blobs = {BlobId(i) : i \in 1..n}
              /\ ids = n
              /\ clock = 2 * n
    /\ proc = [p \in Procs |-> IdleProc]
    /\ out = [call |-> IdleProc, result |-> NoResult]
    /\ calls = MaxCalls - 1
    /\ faults = MaxFaults - 1
    /\ users = RegisteredUsers
    /\ cookies = NoCookies
    /\ active = SignedIn

PageNext == \E p \in Procs : Page_getFiles(p) \/ Page_getTotalSpaceUsed(p)

PageSpec == PageInit /\ [][PageNext]_vars

(***************************************************************************)
(* The steps of a behaviour, as the properties below read them.            *)
(***************************************************************************)
Mutating == {"renameFile", "updateFileUsers", "deleteFile"}

ActionType(op) ==
    CASE op = "renameFile" -> "rename"
      [] op = "updateFileUsers" -> "update sharing permissions for"
      [] op = "deleteFile" -> "delete"

\* this step starts a call
Started == calls' = calls + 1

\* this step ends a call: out' holds it
Ended ==
    \/ Started /\ proc' = proc
    \/ \E p \in Procs : proc[p].pc # "idle" /\ proc'[p].pc = "idle"

\* the call this step starts
StartedCall ==
    IF proc' = proc THEN out'.call
    ELSE proc'[CHOOSE p \in Procs : proc'[p] # proc[p]]

\* user is authenticated, the file exists, and user is not its owner
NotOwnerOf(user, fileId) ==
    /\ user \in UserIds
    /\ fileId \in DOMAIN files
    /\ files[fileId].owner # user

\* user is on the collaborator list of the file
CollaboratorOf(user, fileId) ==
    /\ user \in UserIds
    /\ fileId \in DOMAIN files
    /\ InSeq(EmailOf(user), files[fileId].users)

(***************************************************************************)
(* C1: a renameFile, updateFileUsers or deleteFile call on an existing     *)
(* file by an authenticated user who is not its owner (a collaborator      *)
(* included) ends at the ownership check: it changes neither the files     *)
(* collection nor the storage, and, the check's backend calls answering,   *)
(* it returns the permission error of its action.                          *)
(***************************************************************************)
C1_NonOwnerStep ==
    Started =>
        LET c == StartedCall
        IN  (c.op \in Mutating /\ NotOwnerOf(c.user, c.fileId)) =>
                /\ proc' = proc
                /\ files' = files
                /\ blobs' = blobs
                /\ faults' = faults =>
                       out'.result = OwnershipError(ActionType(c.op))
                /\ faults' # faults => out'.result.kind = "throw"

C1_NonOwnerChangesNothing == [][C1_NonOwnerStep]_vars

\* a collaborator's rename was refused and the record is as it was shared
C1_Witness ==
    /\ out.call.op = "renameFile"
    /\ out.result = OwnershipError("rename")
    /\ CollaboratorOf(out.call.user, out.call.fileId)
    /\ NotOwnerOf(out.call.user, out.call.fileId)
    /\ files[out.call.fileId].name # newName(out.call.name, out.call.extension)

(***************************************************************************)
(* C2: renameFile, updateFileUsers and deleteFile report an ownership      *)
(* violation by returning {status: "error", message}, never by throwing;   *)
(* they report a backend call that failed by throwing; and they return the *)
(* error object only from the ownership check, for a caller who is not     *)
(* authenticated or not the owner.                                         *)
(***************************************************************************)
C2_OutcomeStep ==
    (Ended /\ out'.call.op \in Mutating) =>
        LET c == out'.call
            r == out'.result
            violation == /\ Started
                         /\ faults' = faults
                         /\ NotOwnerOf(c.user, c.fileId)
        IN  /\ violation => /\ r.kind = "return"
                            /\ r.tag = "error"
                            /\ r.body.status = "error"
            /\ faults' # faults => r.kind = "throw"
            /\ (r.kind = "return" /\ r.tag = "error") =>
                   /\ Started
                   /\ faults' = faults
                   /\ c.user = NoUser \/ violation

C3_DeleteRemovesRecordAndBlob ==
    (out.call.op = "deleteFile" /\ out.result.tag = "success") =>
        /\ out.call.fileId \notin DOMAIN files
        /\ bucketFileIdOf(out.call.fileId) \notin blobs

(***************************************************************************)
(* C4: deleteFile deletes a blob only in its storage.deleteFile step, which*)
(* it reaches only with the record already deleted; a deleteDocument that  *)
(* leaves the record in place ends the call with a throw and no blob       *)
(* deleted.                                                                *)
(***************************************************************************)
C4_DeleteStep ==
    \A p \in Procs :
        (proc[p].op = "deleteFile" /\ proc'[p] # proc[p]) =>
            /\ blobs' # blobs =>
                   /\ proc[p].pc = "storage.deleteFile"
                   /\ proc[p].fileId \notin DOMAIN files
            /\ (proc[p].pc = "deleteDocument" /\ files' = files) =>
                   /\ blobs' = blobs
                   /\ proc'[p].pc = "idle"
                   /\ out'.result.kind = "throw"

C4_BlobOnlyAfterRecord == [][C4_DeleteStep]_vars

\* a record deletion failed: the call threw, record and blob are still there
C4_Witness ==
    /\ out.call.op = "deleteFile"
    /\ out.result = handleError("deleteDocument")
    /\ out.call.fileId \in DOMAIN files
    /\ files[out.call.fileId].bucketFileId = out.call.bucketFileId
    /\ out.call.bucketFileId \in blobs

(***************************************************************************)
(* C5: when uploadFile's createDocument fails after the blob was written,  *)
(* the call throws the error createDocument gave, no record was added, and *)
(* (the compensating delete answering) the blob is gone from storage.      *)
(***************************************************************************)
C5_CatchStep ==
    \A p \in Procs :
        (proc[p].op = "uploadFile" /\ proc[p].pc = "catch"
            /\ proc'[p].pc = "idle") =>
            /\ out'.result = handleError("createDocument")
            /\ files' = files
            /\ faults' = faults => proc[p].bucketFile \notin blobs'

C5_OriginalErrorPropagated == [][C5_CatchStep]_vars

(***************************************************************************)
(* C6: a getFiles with no filters by user u that follows a successful      *)
(* uploadFile with owner u, the new record untouched in between, returns   *)
(* exactly one record of that upload, with the uploaded name, the category *)
(* of its extension, its byte size and an empty collaborator list.         *)
(***************************************************************************)
C6_ListStep ==
    ( /\ out.call.op = "uploadFile"
      /\ out.result.tag = "document"
      /\ out.result.body.id \in DOMAIN files
      /\ files[out.result.body.id] = out.result.body
      /\ out' # out
      /\ out'.call.op = "getFiles"
      /\ out'.call.user = out.call.ownerId
      /\ out'.call.query = NoQuery
      /\ out'.result.kind = "return" ) =>
        LET file == out.call.file
            docs == out'.result.body.documents
            hits == {i \in 1..Len(docs) : docs[i].id = out.result.body.id}
        IN  /\ Cardinality(hits) = 1
            /\ \A i \in hits :
                   /\ docs[i].name = file.name
                   /\ docs[i].type = getFileType(file.name).type
                   /\ docs[i].size = file.size
                   /\ docs[i].owner = out'.call.user
                   /\ docs[i].users = <<>>

C6_UploadThenListed == [][C6_ListStep]_vars

\* the owner's unfiltered listing holds the one image just uploaded
C6_Witness ==
    /\ out.call.op = "getFiles"
    /\ out.call.query = NoQuery
    /\ out.result.kind = "return"
    /\ Len(out.result.body.documents) = 1
    /\ LET d == out.result.body.documents[1]
       IN  /\ d.owner = out.call.user
           /\ d.name = <<"a", ".", "P", "N", "G">>
           /\ d.type = "image"
           /\ d.size = 500
           /\ d.createdAt = d.updatedAt

(***************************************************************************)
(* C7: a renameFile(name, extension) that succeeds stores name unchanged   *)
(* when name ends with "." + extension compared without regard to case,    *)
(* and name + "." + extension otherwise; renaming to the stored name again *)
(* leaves it as it is.                                                     *)
(***************************************************************************)
AlreadySuffixed(name, extension) ==
    LET suffix == <<".">> \o extension
        k == Len(name) - Len(suffix)
    IN  /\ k >= 0
        /\ \A i \in 1..Len(suffix) :
               ToLowerChar(name[k + i]) = ToLowerChar(suffix[i])

ExpectedName(name, extension) ==
    IF AlreadySuffixed(name, extension) THEN name
    ELSE name \o <<".">> \o extension

C7_RenameStoresSuffixedName ==
    (out.call.op = "renameFile" /\ out.result.tag = "document") =>
        LET c == out.call
            d == out.result.body
        IN  /\ d.name = ExpectedName(c.name, c.extension)
            /\ newName(d.name, c.extension) = d.name
            /\ (c.fileId \in DOMAIN files
                    /\ files[c.fileId].updatedAt = d.updatedAt) =>
                   files[c.fileId].name = ExpectedName(c.name, c.extension)

\* "b.MD" renamed with extension "md" is stored as "b.MD"
C7_Witness ==
    /\ out.call.op = "renameFile"
    /\ out.result.tag = "document"
    /\ out.call.name = <<"b", ".", "M", "D">>
    /\ out.call.extension = <<"m", "d">>
    /\ out.call.fileId \in DOMAIN files
    /\ files[out.call.fileId].name = <<"b", ".", "M", "D">>

(***************************************************************************)
(* C8: every file record's name ends with "." followed by the record's     *)
(* stored extension.                                                       *)
(***************************************************************************)
C8_NameCarriesExtension ==
    \A f \in DOMAIN files :
        EndsWith(files[f].name, <<".">> \o files[f].extension)

(***************************************************************************)
(* C9: type and extension of a record are those uploadFile derived from    *)
(* the uploaded name and no later step changes them: a rename writes only  *)
(* the name, a sharing update only the collaborator list (the backend      *)
(* stamping $updatedAt).                                                   *)
(***************************************************************************)
SameBut(f, fields) ==
    \A k \in DOMAIN files[f] \ fields : files'[f][k] = files[f][k]

C9_FrameStep ==
    /\ \A f \in DOMAIN files \cap DOMAIN files' :
           /\ files'[f].type = files[f].type
           /\ files'[f].extension = files[f].extension
    /\ \A f \in DOMAIN files' \ DOMAIN files :
           /\ files'[f].type = getFileType(files'[f].name).type
           /\ files'[f].extension = getFileType(files'[f].name).extension
    /\ \A p \in Procs : \A f \in DOMAIN files \cap DOMAIN files' :
           /\ (proc[p].op = "renameFile" /\ proc'[p] # proc[p]) =>
                  SameBut(f, {"name", "updatedAt"})
           /\ (proc[p].op = "updateFileUsers" /\ proc'[p] # proc[p]) =>
                  SameBut(f, {"users", "updatedAt"})

C9_TypeAndExtensionFixed == [][C9_FrameStep]_vars

\* a document renamed to a name that reads as an image is still a document
C9_Witness ==
    \E f \in DOMAIN files :
        /\ files[f].updatedAt > files[f].createdAt
        /\ files[f].type = "document"
        /\ getFileType(files[f].name).type = "image"
        /\ files[f].extension = <<"m", "d">>

(***************************************************************************)
(* C10: no step changes the owner of a record; only requests of the owner  *)
(* are ever past the ownership check of a record; and a call by a user on  *)
(* the collaborator list who is not the owner is refused by the check.     *)
(***************************************************************************)
C10_OwnerStep ==
    /\ \A f \in DOMAIN files \cap DOMAIN files' :
           files'[f].owner = files[f].owner
    /\ \A p \in Procs :
           (proc'[p].op \in Mutating /\ proc'[p].pc # "idle"
                /\ proc'[p].fileId \in DOMAIN files') =>
               files'[proc'[p].fileId].owner = proc'[p].user
    /\ Started =>
           LET c == StartedCall
           IN  (c.op \in Mutating /\ CollaboratorOf(c.user, c.fileId)
                    /\ NotOwnerOf(c.user, c.fileId) /\ faults' = faults) =>
                   /\ Ended
                   /\ out'.result.kind = "return"
                   /\ out'.result.tag = "error"

C10_OwnerNeverChanges == [][C10_OwnerStep]_vars

\* a collaborator's attempt to rewrite the sharing list was refused
C10_Witness ==
    /\ out.call.op = "updateFileUsers"
    /\ CollaboratorOf(out.call.user, out.call.fileId)
    /\ NotOwnerOf(out.call.user, out.call.fileId)
    /\ out.result.kind = "return"
    /\ out.result.tag = "error"
    /\ files[out.call.fileId].users # out.call.emails

(***************************************************************************)
(* C11: an updateFileUsers(fileId, emails) of the owner that reaches the   *)
(* backend with the record there and the backend answering succeeds, and   *)
(* the record's collaborator list is then exactly emails, whatever it was  *)
(* before (the empty list leaves no collaborator); the returned document   *)
(* carries the same list, no other record changes, and a call that throws  *)
(* changes nothing.                                                        *)
(***************************************************************************)
C11_ShareStep ==
    \A p \in Procs :
        (proc[p].op = "updateFileUsers" /\ proc[p].pc = "updateDocument"
            /\ proc'[p].pc = "idle") =>
            LET f == proc[p].fileId
            IN  /\ (faults' = faults /\ f \in DOMAIN files) =>
                       out'.result.kind = "return"
                /\ out'.result.kind = "return" =>
                       /\ f \in DOMAIN files'
                       /\ files'[f].users = proc[p].emails
                       /\ out'.result.body.users = proc[p].emails
                       /\ \A g \in DOMAIN files \ {f} :
                              g \in DOMAIN files' /\ files'[g] = files[g]
                /\ out'.result.kind = "throw" => files' = files

C11_SharingListReplaced == [][C11_ShareStep]_vars

\* the only file, shared once before, has its sharing revoked by the owner
C11_Witness ==
    /\ out.call.op = "updateFileUsers"
    /\ out.result.tag = "document"
    /\ out.call.emails = <<>>
    /\ DOMAIN files = {out.call.fileId}
    /\ ids = 1
    /\ files[out.call.fileId].users = <<>>
    /\ files[out.call.fileId].name \in {u.name : u \in UploadFiles}
    /\ files[out.call.fileId].updatedAt = files[out.call.fileId].createdAt + 2

(***************************************************************************)
(* The getFiles steps, and the records a listing is to hold.               *)
(***************************************************************************)
\* this step is a whole getFiles call that returned a listing
Listed ==
    /\ Started
    /\ proc' = proc
    /\ out'.call.op = "getFiles"
    /\ out'.result.kind = "return"

\* user owns the record or is on its collaborator list
MayAccess(user, doc) ==
    \/ doc.owner = user
    \/ \E i \in 1..Len(doc.users) : doc.users[i] = EmailOf(user)

InCategories(types, doc) ==
    types = <<>> \/ \E i \in 1..Len(types) : types[i] = doc.type

NameContains(text, doc) ==
    \/ text = <<>>
    \/ \E k \in 0..(Len(doc.name) - Len(text)) :
           \A i \in 1..Len(text) : doc.name[k + i] = text[i]

\* the records getFiles(query) by user is to return
Wanted(user, query) ==
    {files[f] : f \in {g \in DOMAIN files :
                          /\ MayAccess(user, files[g])
                          /\ InCategories(query.types, files[g])
                          /\ NameContains(query.searchText, files[g])}}

ListedDocs == {out'.result.body.documents[i] :
                   i \in 1..Len(out'.result.body.documents)}

(***************************************************************************)
(* C12: a getFiles that returns does so for an authenticated user u, and   *)
(* returns records r with (r.owner = u or u's email in r.users) and (no    *)
(* category filter or r.type in it) and (no search text or r.name contains *)
(* it), each once: all of them when no limit is given (as many as the      *)
(* limit allows otherwise), total counting all of them.                    *)
(***************************************************************************)
C12_ListStep ==
    Listed =>
        LET c == out'.call
            docs == out'.result.body.documents
            wanted == Wanted(c.user, c.query)
        IN  /\ c.user \in UserIds
            /\ ListedDocs \subseteq wanted
            /\ \A d \in ListedDocs : MayAccess(c.user, d)
            /\ Cardinality(ListedDocs) = Len(docs)
            /\ out'.result.body.total = Cardinality(wanted)
            /\ c.query.limit = 0 => ListedDocs = wanted
            /\ c.query.limit # 0 =>
                   Len(docs) = IF c.query.limit < Cardinality(wanted)
                               THEN c.query.limit ELSE Cardinality(wanted)

C13_FilterStep ==
    (Listed /\ out'.call.query.types # <<>>) =>
        \A d \in ListedDocs :
            /\ \E i \in 1..Len(out'.call.query.types) :
                   out'.call.query.types[i] = d.type
            /\ out'.call.query.types = <<"image">> => d.type # "document"

C13_CategoryFilterExcludes == [][C13_FilterStep]_vars

\* the caller owns a document and an image; the image listing holds only
\* the image
C13_Witness ==
    /\ out.call.op = "getFiles"
    /\ out.result.kind = "return"
    /\ out.call.query.types = <<"image">>
    /\ \E f \in DOMAIN files :
           files[f].owner = out.call.user /\ files[f].type = "document"
    /\ Len(out.result.body.documents) = 1
    /\ out.result.body.documents[1].type = "image"
    /\ out.result.body.documents[1].owner = out.call.user

(***************************************************************************)
(* The getTotalSpaceUsed steps, and the sums they are to give.             *)
(***************************************************************************)
\* this step is a whole getTotalSpaceUsed call that returned its totals
Totalled ==
    /\ Started
    /\ proc' = proc
    /\ out'.call.op = "getTotalSpaceUsed"
    /\ out'.result.kind = "return"

\* the records user owns, and those of one category
Owned(user) == {f \in DOMAIN files : files[f].owner = user}

OwnedOfType(user, type) == {f \in Owned(user) : files[f].type = type}

\* records shared with user that user does not own
SharedOnly(user) ==
    {f \in DOMAIN files \ Owned(user) : InSeq(EmailOf(user), files[f].users)}

\* the byte sizes of the records ids, summed
RECURSIVE SumSizes(_)
SumSizes(recordIds) ==
    IF recordIds = {} THEN Num(0)
    ELSE LET f == CHOOSE g \in recordIds : TRUE
         IN  Plus(Num(files[f].size), SumSizes(recordIds \ {f}))

\* a > b
Greater(a, b) == a[1] > b[1] \/ (a[1] = b[1] /\ a[2] > b[2])

(***************************************************************************)
(* C14: the totals getTotalSpaceUsed returns for user u hold, for each of  *)
(* the five categories, size = the sum of the byte sizes of u's owned      *)
(* records of that category, and used = the sum over all records u owns,   *)
(* which is image.size + document.size + video.size + audio.size +         *)
(* other.size.                                                             *)
(***************************************************************************)
C14_SumStep ==
    Totalled =>
        LET u == out'.call.user
            t == out'.result.body
        IN  /\ \A type \in FileTypes :
                   t[type].size = SumSizes(OwnedOfType(u, type))
            /\ t.used = SumSizes(Owned(u))
            /\ t.used = Plus(t.image.size,
                          Plus(t.document.size,
                            Plus(t.video.size,
                              Plus(t.audio.size, t.other.size))))

C14_SizesAreSums == [][C14_SumStep]_vars

\* documents of 1000 and 2000 bytes and an image of 500 bytes give 3000,
\* 500 and 3500
C14_Witness ==
    /\ out.call.op = "getTotalSpaceUsed"
    /\ out.result.kind = "return"
    /\ {files[f].size : f \in OwnedOfType(out.call.user, "document")}
           = {1000, 2000}
    /\ {files[f].size : f \in OwnedOfType(out.call.user, "image")} = {500}
    /\ Cardinality(Owned(out.call.user)) = 3
    /\ out.result.body.document.size = <<0, 3000>>
    /\ out.result.body.image.size = <<0, 500>>
    /\ out.result.body.used = <<0, 3500>>


(***************************************************************************)
(* C15: the totals getTotalSpaceUsed returns for user u hold, for each     *)
(* category, latestDate = the greatest $updatedAt among u's owned records  *)
(* of that category, in whatever order the records were scanned, and ''    *)
(* for a category in which u owns no record.                               *)
(***************************************************************************)
C15_DateStep ==
    Totalled =>
        LET u == out'.call.user
            t == out'.result.body
        IN  \A type \in FileTypes :
                LET mine == OwnedOfType(u, type)
                IN  IF mine = {} THEN t[type].latestDate = NoDate
                    ELSE \E f \in mine :
                             /\ t[type].latestDate = <<files[f].updatedAt>>
                             /\ \A g \in mine :
                                    files[g].updatedAt <= files[f].updatedAt

C15_LatestDateIsMaximum == [][C15_DateStep]_vars

\* of three documents the caller owns the first uploaded was updated last:
\* its date is the one reported, and the image date is ''
C15_Witness ==
    /\ out.call.op = "getTotalSpaceUsed"
    /\ out.result.kind = "return"
    /\ OwnedOfType(out.call.user, "document") = {1, 2, 3}
    /\ files[1].updatedAt > files[3].updatedAt
    /\ files[3].updatedAt > files[2].updatedAt
    /\ out.result.body.document.latestDate = <<files[1].updatedAt>>
    /\ out.result.body.image.latestDate = NoDate

(***************************************************************************)
(* C16: the totals getTotalSpaceUsed returns for user u count only the     *)
(* records u owns: with no owned record of a category its size is 0 and    *)
(* its date '', and used is the sum over the owned records alone, however  *)
(* many records are shared with u; all is 2 * 1024^3 = 2147483648 whatever *)
(* the files are, and used is that sum also when the sum is above all.     *)
(***************************************************************************)
C16_OwnedStep ==
    Totalled =>
        LET u == out'.call.user
            t == out'.result.body
        IN  /\ t.all = <<2147, 483648>>
            /\ t.all = all
            /\ t.used = SumSizes(Owned(u))
            /\ t.used = SumSizes(DOMAIN files \ {f \in DOMAIN files :
                                                    files[f].owner # u})
            /\ \A type \in FileTypes :
                   OwnedOfType(u, type) = {} =>
                       t[type] = [size |-> <<0, 0>>, latestDate |-> NoDate]
            /\ Owned(u) = {} => t.used = <<0, 0>>

C16_OnlyOwnedFixedCeiling == [][C16_OwnedStep]_vars

\* the caller owns two videos of 1.5 GB and is shared a document: used is
\* 3 GB, above all, and the document category is empty
C16_Witness ==
    /\ out.call.op = "getTotalSpaceUsed"
    /\ out.result.kind = "return"
    /\ Cardinality(Owned(out.call.user)) = 2
    /\ \E f \in SharedOnly(out.call.user) : files[f].type = "document"
    /\ out.result.body.used = <<3000, 0>>
    /\ Greater(out.result.body.used, out.result.body.all)
    /\ out.result.body.document = [size |-> <<0, 0>>, latestDate |-> NoDate]

(***************************************************************************)
(* The backend errors a step meets.                                        *)
(***************************************************************************)
\* where the call this step ends stood before the step
EndedFrom ==
    IF Started THEN "start"
    ELSE proc[CHOOSE p \in Procs : proc'[p] # proc[p]].pc

\* a backend call of this step failed for an outside reason
FailedOutside == faults' # faults

\* a backend call of this step failed because the document or the blob it
\* names is not there
FailedMissing ==
    \/ /\ Started
       /\ StartedCall.op \in Mutating
       /\ StartedCall.user \in UserIds
       /\ StartedCall.fileId \notin DOMAIN files
    \/ \E p \in Procs :
           /\ proc'[p] # proc[p]
           /\ \/ /\ proc[p].pc \in {"updateDocument", "deleteDocument"}
                 /\ proc[p].fileId \notin DOMAIN files
              \/ /\ proc[p].pc = "storage.deleteFile"
                 /\ proc[p].bucketFileId \notin blobs

\* the backend calls op makes in the step it takes from the position from;
\* a call that stands in the catch of uploadFile has met the error of
\* createDocument
ErrorsMet(op, from) ==
    CASE from = "start" /\ op = "uploadFile" -> {"storage.createFile"}
      [] from = "start" /\ op \in Mutating ->
             {"getCurrentUser", "getDocument"}
      [] from = "start" /\ op \in {"getFiles", "getTotalSpaceUsed"} ->
             {"getCurrentUser", "listDocuments"}
      [] from = "catch" -> {"createDocument"}
      [] OTHER -> {from}

(***************************************************************************)
(* C17: a call of uploadFile, getFiles, renameFile, updateFileUsers,       *)
(* deleteFile or getTotalSpaceUsed that meets a backend error (the lookup  *)
(* of the file in the ownership check included) ends by throwing that      *)
(* error, the first it met: it returns neither a success value nor an      *)
(* error object; the only step on which a call goes on after an error is   *)
(* uploadFile's move to its compensation.                                  *)
(***************************************************************************)
C17_ErrorStep ==
    /\ (Ended /\ (FailedOutside \/ FailedMissing \/ EndedFrom = "catch")) =>
           /\ out'.result.kind = "throw"
           /\ out'.result.tag \in ErrorsMet(out'.call.op, EndedFrom)
    /\ ((FailedOutside \/ FailedMissing) /\ ~Ended) =>
           \E p \in Procs :
               /\ proc[p].op = "uploadFile"
               /\ proc[p].pc = "createDocument"
               /\ proc'[p].pc = "catch"

C17_SameErrorRethrown == [][C17_ErrorStep]_vars


(***************************************************************************)
(* C18: a renameFile of the owner that reaches updateDocument with the     *)
(* record there and the backend answering succeeds whatever other renames  *)
(* of the same file are in flight or have written since its ownership      *)
(* check: it returns the document, the stored name is then the name it     *)
(* wrote, and a rename of the same file still in flight is left to write   *)
(* in its turn.                                                            *)
(***************************************************************************)
C18_RenameStep ==
    \A p \in Procs :
        (proc[p].op = "renameFile" /\ proc[p].pc = "updateDocument"
            /\ proc'[p] # proc[p]) =>
            LET f == proc[p].fileId
                written == newName(proc[p].name, proc[p].extension)
            IN  /\ proc'[p].pc = "idle"
                /\ (faults' = faults /\ f \in DOMAIN files) =>
                       /\ out'.result.tag = "document"
                       /\ out'.result.body.name = written
                       /\ files'[f].name = written
                /\ \A q \in Procs \ {p} : proc'[q] = proc[q]

C18_LastRenameWins == [][C18_RenameStep]_vars

\* of two renames of one file in flight together the first has returned
\* with its name stored, and the other, to another name, is at its update
C18_Witness ==
    /\ out.call.op = "renameFile"
    /\ out.result.tag = "document"
    /\ out.call.fileId \in DOMAIN files
    /\ files[out.call.fileId].name = out.result.body.name
    /\ \E q \in Procs :
           /\ proc[q].op = "renameFile"
           /\ proc[q].pc = "updateDocument"
           /\ proc[q].fileId = out.call.fileId
           /\ proc[q].user = out.call.user
           /\ newName(proc[q].name, proc[q].extension) # out.result.body.name
    /\ calls = MaxCalls

(***************************************************************************)
(* C19: when deleteFile's storage.deleteFile fails, the record already     *)
(* deleted, the call ends there by throwing that error: the record stays   *)
(* deleted and is not created again, no blob leaves the storage, the blob  *)
(* the record referenced is referenced by no record, and nothing is tried  *)
(* again.                                                                  *)
(***************************************************************************)
C19_PartialFailureStep ==
    \A p \in Procs :
        (proc[p].op = "deleteFile" /\ proc[p].pc = "storage.deleteFile"
            /\ proc'[p] # proc[p]
            /\ (faults' # faults \/ proc[p].bucketFileId \notin blobs)) =>
            /\ proc'[p] = IdleProc
            /\ out'.result = handleError("storage.deleteFile")
            /\ proc[p].fileId \notin DOMAIN files
            /\ files' = files
            /\ blobs' = blobs
            /\ ids' = ids
            /\ \A g \in DOMAIN files' :
                   files'[g].bucketFileId # bucketFileIdOf(proc[p].fileId)

C19_NoReconciliation == [][C19_PartialFailureStep]_vars

\* the owner's deleteFile threw at the blob deletion: the record is gone
\* and its blob is in storage, referenced by no record
C19_Witness ==
    /\ out.call.op = "deleteFile"
    /\ out.result = handleError("storage.deleteFile")
    /\ out.call.bucketFileId = bucketFileIdOf(out.call.fileId)
    /\ out.call.fileId \notin DOMAIN files
    /\ out.call.bucketFileId \in blobs
    /\ \A g \in DOMAIN files : files[g].bucketFileId # out.call.bucketFileId
    /\ \A p \in Procs : proc[p] = IdleProc

(***************************************************************************)
(* C20: the type of the record uploadFile creates is a function of the     *)
(* uploaded name alone: with e the part of the name after its last dot     *)
(* (the whole name when it has none) in lower case, the type is the one of *)
(* document, image, video, audio whose table holds e (no e is in two       *)
(* tables), and other when no table holds e or e is empty; it is always    *)
(* one of the five.                                                        *)
(***************************************************************************)
\* the part of name after its last dot, lower-cased
LastSegment(name) ==
    LET after == {k \in 0..Len(name) :
                     /\ k = 0 \/ name[k] = "."
                     /\ \A i \in (k + 1)..Len(name) : name[i] # "."}
        k == CHOOSE j \in after : TRUE
    IN  [i \in 1..(Len(name) - k) |-> ToLowerChar(name[k + i])]

\* the categories whose table holds extension
TablesHolding(extension) ==
    {type \in {"document", "image", "video", "audio"} :
        extension \in (CASE type = "document" -> documentExtensions
                         [] type = "image" -> imageExtensions
                         [] type = "video" -> videoExtensions
                         [] type = "audio" -> audioExtensions)}

C20_CreateStep ==
    \A f \in DOMAIN files' \ DOMAIN files :
        LET e == LastSegment(files'[f].name)
            holding == TablesHolding(e)
        IN  /\ files'[f].name = out'.call.file.name
            /\ files'[f].type \in FileTypes
            /\ Cardinality(holding) <= 1
            /\ holding # {} => files'[f].type \in holding
            /\ holding = {} => files'[f].type = "other"
            /\ e = <<>> => files'[f].type = "other"

C20_TypeFromLastSegment == [][C20_CreateStep]_vars

\* "a.MP3" is stored as audio, its extension read in lower case
C20_Witness ==
    \E f \in DOMAIN files :
        /\ files[f].name = <<"a", ".", "M", "p", "3">>
        /\ files[f].type = "audio"
        /\ files[f].extension = <<"m", "p", "3">>

(***************************************************************************)
(* C21: a call made with a session that no user record matches, the        *)
(* lookup of the user answering, ends in its first step: renameFile,       *)
(* updateFileUsers and deleteFile return {status: "error", message: "User  *)
(* not authenticated"} whether or not the file exists, and change neither  *)
(* the collection nor the storage; getFiles and getTotalSpaceUsed throw.   *)
(* The only backend error such a call can meet is that of the user lookup: *)
(* the file is never read.                                                 *)
(***************************************************************************)
C21_NoUserStep ==
    (Started /\ StartedCall.op # "uploadFile"
        /\ StartedCall.user = NoUser) =>
        LET c == StartedCall
        IN  /\ Ended
            /\ files' = files
            /\ blobs' = blobs
            /\ faults' # faults =>
                   out'.result = handleError("getCurrentUser")
            /\ (faults' = faults /\ c.op \in Mutating) =>
                   out'.result =
                       Return("error",
                              [status |-> "error",
                               message |-> <<"User not authenticated">>])
            /\ (faults' = faults /\ c.op \in {"getFiles", "getTotalSpaceUsed"})
                   => out'.result.kind = "throw"

C21_UnauthenticatedRefused == [][C21_NoUserStep]_vars

\* a deleteFile without a user record on an existing file came back as the
\* error object, record and blob in place
C21_Witness ==
    /\ out.call.op = "deleteFile"
    /\ out.call.user = NoUser
    /\ out.result.kind = "return"
    /\ out.result.body.message = <<"User not authenticated">>
    /\ out.call.fileId \in DOMAIN files
    /\ files[out.call.fileId].bucketFileId \in blobs

(***************************************************************************)
(* C22: an unfiltered getFiles by user u returns a record whose list holds *)
(* u's email, and returns no record that u does not own and whose list     *)
(* does not hold u's email, nor any record that is not in the collection;  *)
(* so, listed right after the owner's successful updateFileUsers(emails),  *)
(* the record as that update left it, the file is returned to the owner    *)
(* and to the users of emails and to nobody else, and listed right after a *)
(* successful deleteFile it is returned to nobody.                         *)
(***************************************************************************)
C22_ListStep ==
    (Listed /\ out'.call.query = NoQuery) =>
        LET u == out'.call.user
            listedIds == {d.id : d \in ListedDocs}
        IN  /\ listedIds \subseteq DOMAIN files
            /\ \A f \in DOMAIN files :
                   /\ InSeq(EmailOf(u), files[f].users) =>
                          files[f] \in ListedDocs
                   /\ (files[f].owner # u
                           /\ ~InSeq(EmailOf(u), files[f].users)) =>
                          f \notin listedIds
            /\ (out.call.op = "updateFileUsers"
                    /\ out.result.tag = "document"
                    /\ out.call.fileId \in DOMAIN files
                    /\ files[out.call.fileId].updatedAt
                           = out.result.body.updatedAt) =>
                   (out.call.fileId \in listedIds <=>
                        \/ u = out.call.user
                        \/ InSeq(EmailOf(u), out.call.emails))
            /\ (out.call.op = "deleteFile" /\ out.result.tag = "success") =>
                   out.call.fileId \notin listedIds

C22_SharingAndDeletionTakeEffect == [][C22_ListStep]_vars

\* the file was shared with the caller; after an update that left the
\* caller out, the caller's listing is empty
C22_Witness ==
    /\ out.call.op = "getFiles"
    /\ out.call.query = NoQuery
    /\ out.result.kind = "return"
    /\ out.result.body.documents = <<>>
    /\ InSeq(EmailOf(out.call.user), SharedCollection[1].users)
    /\ 1 \in DOMAIN files
    /\ files[1].updatedAt > SharedCollection[1].updatedAt
    /\ ~InSeq(EmailOf(out.call.user), files[1].users)

(***************************************************************************)
(* The ordering a getFiles call asks for.                                  *)
(***************************************************************************)
\* the field and direction of a sort string 'field-direction': creation
\* time, descending, for no sort string; none when a part is missing
Requested(sort) ==
    IF sort = <<>> THEN <<"$createdAt", "desc">>
    ELSE IF Len(sort) = 3 /\ sort[2] = "-" THEN <<sort[1], sort[3]>>
    ELSE <<>>

\* docs is in the order of field, ascending when direction is 'asc' and
\* descending otherwise
InOrder(docs, field, direction) ==
    \A i, j \in 1..Len(docs) :
        i < j =>
            IF direction = "asc"
            THEN ~Less(field, Attribute(docs[j], field),
                       Attribute(docs[i], field))
            ELSE ~Less(field, Attribute(docs[i], field),
                       Attribute(docs[j], field))

\* the ordering queries of the call's query, as getFiles builds it
OrderingsOf(call) ==
    SelectQueries(
        createQueries(getCurrentUser(call.user), call.query.types,
                      call.query.searchText,
                      IF call.query.sort # <<>> THEN call.query.sort
                      ELSE <<"$createdAt", "-", "desc">>,
                      call.query.limit),
        {"orderAsc", "orderDesc"})

(***************************************************************************)
(* C23: the listing of getFiles({sort: 'field-direction'}) is in the order *)
(* of field, ascending exactly when direction is 'asc', descending for     *)
(* every other direction; with no sort it is in the order of creation      *)
(* time, descending; a sort string with no direction part (or no field)    *)
(* puts no ordering in the query.                                          *)
(***************************************************************************)
C23_OrderStep ==
    Listed =>
        LET c == out'.call
            docs == out'.result.body.documents
            requested == Requested(c.query.sort)
        IN  IF requested = <<>>
            THEN OrderingsOf(c) = <<>>
            ELSE /\ InOrder(docs, requested[1], requested[2])
                 /\ Len(OrderingsOf(c)) = 1
                 /\ OrderingsOf(c)[1].attribute = requested[1]
                 /\ OrderingsOf(c)[1].method = "orderAsc"
                        <=> requested[2] = "asc"

C23_OrderedAsRequested == [][C23_OrderStep]_vars

\* 'size-down' listed three files, the largest first, which is neither
\* their order of creation nor its reverse
C23_Witness ==
    /\ out.call.op = "getFiles"
    /\ out.result.kind = "return"
    /\ out.call.query.sort = <<"size", "-", "down">>
    /\ Len(out.result.body.documents) = 3
    /\ out.result.body.documents[1].size > out.result.body.documents[2].size
    /\ out.result.body.documents[2].size > out.result.body.documents[3].size
    /\ out.result.body.documents[1].createdAt
           > out.result.body.documents[2].createdAt
    /\ out.result.body.documents[2].createdAt
           < out.result.body.documents[3].createdAt


\* the count limits of the call's query, as getFiles builds it
LimitsOf(call) ==
    SelectQueries(
        createQueries(getCurrentUser(call.user), call.query.types,
                      call.query.searchText,
                      IF call.query.sort # <<>> THEN call.query.sort
                      ELSE <<"$createdAt", "-", "desc">>,
                      call.query.limit),
        {"limit"})

(***************************************************************************)
(* C24: getFiles({limit: n}) with n > 0 returns at most n records, each    *)
(* of them a record the caller may access and that passes the category     *)
(* and name filters, and its query holds the one limit n; with limit       *)
(* absent or 0 the query holds no limit.                                   *)
(***************************************************************************)
C24_LimitStep ==
    Listed =>
        LET c == out'.call
            docs == out'.result.body.documents
        IN  IF c.query.limit > 0
            THEN /\ Len(docs) <= c.query.limit
                 /\ \A i \in 1..Len(docs) :
                        /\ docs[i] \in {files[f] : f \in DOMAIN files}
                        /\ MayAccess(c.user, docs[i])
                        /\ InCategories(c.query.types, docs[i])
                        /\ NameContains(c.query.searchText, docs[i])
                 /\ LimitsOf(c) = <<Query("limit", "", <<c.query.limit>>)>>
            ELSE LimitsOf(c) = <<>>

C24_LimitBoundsResult == [][C24_LimitStep]_vars

\* limit 1 and a category filter: one document listed of the two or more
\* the caller owns
C24_Witness ==
    /\ out.call.op = "getFiles"
    /\ out.result.kind = "return"
    /\ out.call.query.limit = 1
    /\ out.call.query.types = <<"document">>
    /\ Len(out.result.body.documents) = 1
    /\ out.result.body.total >= 2
    /\ out.result.body.documents[1].type = "document"
    /\ out.result.body.documents[1].owner = out.call.user


(***************************************************************************)
(* C25: the storage step of a deleteFile call on file A removes no blob    *)
(* but the one A's record referenced, whatever bucketFileId the caller     *)
(* passed: every record still in the collection keeps its blob.            *)
(***************************************************************************)
C25_StorageStep ==
    \A p \in Procs :
        (proc[p].op = "deleteFile" /\ proc[p].pc = "storage.deleteFile"
             /\ proc'[p].pc = "idle") =>
            /\ blobs \ blobs' \subseteq {bucketFileIdOf(proc[p].fileId)}
            /\ \A f \in DOMAIN files :
                   files[f].bucketFileId \in blobs =>
                       files[f].bucketFileId \in blobs'

C25_OnlyOwnBlobRemoved == [][C25_StorageStep]_vars


(***************************************************************************)
(* C26: when every deleteFile passes the bucketFileId of the record it     *)
(* names, every step of uploadFile, renameFile, updateFileUsers and        *)
(* deleteFile, however the calls interleave, leaves each record of the     *)
(* collection with its blob in storage; and the updateDocument of a rename *)
(* or sharing update whose record was deleted since its ownership check    *)
(* throws the backend's error and leaves the collection as it was.         *)
(***************************************************************************)
C26_Step ==
    /\ \A f \in DOMAIN files' : files'[f].bucketFileId \in blobs'
    /\ \A p \in Procs :
           (proc[p].op \in {"renameFile", "updateFileUsers"}
                /\ proc[p].pc = "updateDocument"
                /\ proc[p].fileId \notin DOMAIN files
                /\ proc'[p] # proc[p]) =>
               /\ files' = files
               /\ out'.call.op = proc[p].op
               /\ out'.result = handleError("updateDocument")

C26_RecordsKeepTheirBlobs == [][C26_Step]_vars

\* a rename passed its ownership check, the file was deleted, record and
\* blob, with no backend failure, and the rename then threw
C26_Witness ==
    /\ out.call.op = "renameFile"
    /\ out.result = handleError("updateDocument")
    /\ faults = 0
    /\ out.call.fileId \in 1..ids
    /\ out.call.fileId \notin DOMAIN files
    /\ bucketFileIdOf(out.call.fileId) \notin blobs


(***************************************************************************)
(* C27: a step of uploadFile that adds a record to the collection is made  *)
(* by a caller with a session, and the record's owner is the user of that  *)
(* session.                                                                *)
(***************************************************************************)
C27_CreateStep ==
    \A p \in Procs :
        (proc[p].op = "uploadFile" /\ proc'[p] # proc[p]) =>
            \A f \in DOMAIN files' \ DOMAIN files :
                /\ proc[p].user \in UserIds
                /\ files'[f].owner = proc[p].user

C27_OwnerIsAuthenticatedUploader == [][C27_CreateStep]_vars


(***************************************************************************)
(* C28: after any createAccount calls, two of them at once for one email   *)
(* included, the users collection holds at most one document for each      *)
(* email.                                                                  *)
(***************************************************************************)
C28_OneRecordPerEmail ==
    \A i, j \in 1..Len(users) : users[i].email = users[j].email => i = j


(***************************************************************************)
(* C29: a verifySecret that returns leaves the session's secret in the     *)
(* cookie createSessionClient reads; getCurrentUser redirects to /sign-in  *)
(* exactly when that cookie is absent or empty; and a signOUtUser that     *)
(* deleted the session leaves the browser without that cookie.             *)
(***************************************************************************)
C29_SignedIn ==
    (Started /\ out'.call.op = "verifySecret"
         /\ out'.result.kind = "return") =>
        /\ hasSession(cookies')
        /\ cookies'[SessionCookie] = out'.result.body.sessionId

C29_Redirected ==
    (Started /\ out'.call.op = "getCurrentUser") =>
        (out'.result = Redirect <=> ~hasSession(cookies))

C29_SignedOut ==
    (Started /\ out'.call.op = "signOUtUser" /\ active' # active) =>
        SessionCookie \notin DOMAIN cookies'

C29_SessionCookieAgrees ==
    [][C29_SignedIn /\ C29_Redirected /\ C29_SignedOut]_vars


(***************************************************************************)
(* C30: the size the page of a route type shows is the sum of the byte     *)
(* sizes of the visitor's own files of the categories getFileTypesParams   *)
(* hands to getFiles for that route type, whether the route type is one of *)
(* documents, images, media, others or not.                                *)
(***************************************************************************)
C30_PageStep ==
    (\E p \in Procs : proc[p].op = "Page" /\ proc'[p].pc = "idle"
                          /\ out'.result.kind = "return") =>
        LET c == out'.call
            types == getFileTypesParams(c.type)
        IN  out'.result.body.currentTypeStorage =
                SumSizes({f \in Owned(c.user) :
                             InCategories(types, files[f])})

C30_TotalOfListedCategories == [][C30_PageStep]_vars


====
